---- MODULE Spec2Model ----
(***************************************************************************)
(* django-ca: the profile engine (django_ca/profiles.py).                  *)
(*                                                                         *)
(* Profile.create_cert is modelled statement group by statement group: the *)
(* variable pc is the position inside the call, the other variables are    *)
(* the call's parameters and locals.  Values of the cryptography library   *)
(* are modelled as records:                                                *)
(*   x509.Extension      [oid, critical, value], value a sequence of items *)
(*   item                [t, v]: a general name (t its type) or an access  *)
(*                       description (t its access method, v its location) *)
(*   x509.Name           [kind |-> "Name", attrs], attrs a sequence of     *)
(*                       name attributes [oid, value]                      *)
(*   None / False        "None" for strings, NoneExt for extensions,       *)
(*                       NoneName / FalseName for subjects                 *)
(***************************************************************************)
EXTENDS Naturals, Sequences, FiniteSets, TLC

VARIABLES
    self,                          \* the Profile instance create_cert is called on
    init_error,                    \* exception of the last Profile(...) construction
    init_kwargs,                   \* the arguments self was constructed with
    pc,                            \* position inside create_cert
    ca,                            \* parameter ca
    csr,                           \* parameter csr
    args,                          \* the parameters as the caller passed them
    subject,                       \* parameter/local subject
    algorithm,                     \* parameter/local algorithm
    cn_in_san,                     \* parameter/local cn_in_san
    add_crl_url,                   \* parameter/local add_crl_url
    add_ocsp_url,                  \* parameter/local add_ocsp_url
    add_issuer_url,                \* parameter/local add_issuer_url
    add_issuer_alternative_name,   \* parameter/local add_issuer_alternative_name
    cert_extensions,               \* local cert_extensions (the working mapping)
    pre_sign_cert,                 \* number of pre_sign_cert.send calls of this call
    result,                        \* what the call returned or raised
    \* the profile registry (Profiles, DefaultProfileProxy)
    ca_settings,                   \* ca_settings.CA_DEFAULT_PROFILE and .CA_PROFILES
    heap,                          \* the Profile instances, by identity
    _profiles,                     \* profiles._profiles: the local(), per thread
    thread,                        \* what each thread is doing
    seen,                          \* per thread and name, the first instance obtained
    \* the ACME views (django_ca/views.py)
    cache,                         \* django.core.cache.cache
    accepted,                      \* per nonce key, the requests that passed the check
    orders,                        \* AcmeOrder rows: the status by slug
    acme_certificates,             \* AcmeCertificate rows: the orders that have one
    tasks,                         \* acme_issue_certificate tasks scheduled
    worker,                        \* the request each worker is handling
    \* list-valued and set-valued extensions next to native containers
    native_list,                   \* a list
    list_ext,                      \* the value of a list-valued extension
    native_set,                    \* a set
    set_ext,                       \* the value of a KeyUsage extension
    last_op,                       \* the last container operation and its outcome in both
    \* the command init_ca (management/commands/init_ca.py)
    clock,                         \* the time the clock shows
    authorities,                   \* CertificateAuthority rows: parent and expires by name
    command,                       \* the call of Command.handle in progress
    \* CertificateRevocationListView
    crl_cache,                     \* the CRL entries of django.core.cache.cache
    crl_number,                    \* the state of the revocations a CRL lists
    \* ACME challenges and their validation
    acme_order,                    \* the status of the AcmeOrder
    authorizations,                \* AcmeAuthorization rows: the status by name
    challenges,                    \* AcmeChallenge rows: auth, type and status by name
    validations,                   \* acme_validate_challenge runs scheduled, by challenge
    task_run                       \* the last run of acme_validate_challenge and what it met

engine_vars == <<self, init_error, init_kwargs, pc, ca, csr, args, subject, algorithm,
                 cn_in_san, add_crl_url, add_ocsp_url, add_issuer_url,
                 add_issuer_alternative_name, cert_extensions, pre_sign_cert, result>>

registry_vars == <<ca_settings, heap, _profiles, thread, seen>>

acme_vars == <<cache, accepted, orders, acme_certificates, tasks, worker>>

container_vars == <<native_list, list_ext, native_set, set_ext, last_op>>

\* the components that neither the profiles nor the ACME views touch
initca_vars == <<clock, authorities, command>>

crl_vars == <<crl_cache, crl_number>>

challenge_vars == <<acme_order, authorizations, challenges, validations, task_run>>

more_vars == <<container_vars, initca_vars, crl_vars, challenge_vars>>

\* seen from the profile engine: the state of the other components
other_components == <<registry_vars, acme_vars, more_vars>>

vars == <<engine_vars, registry_vars, acme_vars, more_vars>>

----------------------------------------------------------------------------
(* Bounds of the model *)

\* longest SubjectAlternativeName a caller passes
MaxSanLen == 2

----------------------------------------------------------------------------
(* Python values *)

None == "None"

NoneExt == [oid |-> "None", critical |-> FALSE, value |-> <<>>]

Name(attrs) == [kind |-> "Name", attrs |-> attrs]
NoneName == [kind |-> "None", attrs |-> <<>>]
FalseName == [kind |-> "False", attrs |-> <<>>]

NameAttribute(oid, value) == [oid |-> oid, value |-> value]

Extension(oid, critical, value) == [oid |-> oid, critical |-> critical, value |-> value]

EmptyDict == [k \in {} |-> NoneExt]

\* dict.setdefault(k, v)
setdefault(d, k, v) == IF k \in DOMAIN d THEN d ELSE d @@ (k :> v)

\* dict.pop(k, None)
pop(d, k) == [x \in (DOMAIN d) \ {k} |-> d[x]]

\* d[k] = v
setitem(d, k, v) == (k :> v) @@ d

Range(s) == {s[i] : i \in DOMAIN s}

----------------------------------------------------------------------------
(* Object identifiers *)

AUTHORITY_INFORMATION_ACCESS == "AUTHORITY_INFORMATION_ACCESS"
AUTHORITY_KEY_IDENTIFIER == "AUTHORITY_KEY_IDENTIFIER"
BASIC_CONSTRAINTS == "BASIC_CONSTRAINTS"
CRL_DISTRIBUTION_POINTS == "CRL_DISTRIBUTION_POINTS"
ISSUER_ALTERNATIVE_NAME == "ISSUER_ALTERNATIVE_NAME"
OCSP_NO_CHECK == "OCSP_NO_CHECK"
SUBJECT_ALTERNATIVE_NAME == "SUBJECT_ALTERNATIVE_NAME"
SUBJECT_KEY_IDENTIFIER == "SUBJECT_KEY_IDENTIFIER"

COMMON_NAME == "CN"

\* AuthorityInformationAccessOID
OCSP == "OCSP"
CA_ISSUERS == "CA_ISSUERS"

\* constants.EXTENSION_KEY_OIDS, for the keys the configuration uses
EXTENSION_KEY_OIDS ==
    [key \in {"authority_information_access", "basic_constraints", "crl_distribution_points",
              "issuer_alternative_name", "ocsp_no_check", "subject_alternative_name"} |->
        CASE key = "authority_information_access" -> AUTHORITY_INFORMATION_ACCESS
          [] key = "basic_constraints" -> BASIC_CONSTRAINTS
          [] key = "crl_distribution_points" -> CRL_DISTRIBUTION_POINTS
          [] key = "issuer_alternative_name" -> ISSUER_ALTERNATIVE_NAME
          [] key = "ocsp_no_check" -> OCSP_NO_CHECK
          [] OTHER -> SUBJECT_ALTERNATIVE_NAME]

\* constants.EXTENSION_DEFAULT_CRITICAL[ExtensionOID.BASIC_CONSTRAINTS]
BASIC_CONSTRAINTS_DEFAULT_CRITICAL == TRUE

\* constants.HASH_ALGORITHM_TYPES
HASH_ALGORITHM_TYPES == {"SHA256", "SHA512"}

----------------------------------------------------------------------------
(* django_ca.utils: names *)

\* x509.Name.get_attributes_for_oid
get_attributes_for_oid(name, oid) == SelectSeq(name.attrs, LAMBDA a : a.oid = oid)

\* the attribute types, in the order sort_name gives them
NAME_ORDER == <<"C", "ST", "L", "O", "OU", "CN">>

RECURSIVE ConcatByOrder(_, _)
ConcatByOrder(attrs, order) ==
    IF order = <<>> THEN <<>>
    ELSE SelectSeq(attrs, LAMBDA a : a.oid = Head(order))
            \o ConcatByOrder(attrs, Tail(order))

\* utils.sort_name: stable sort by the priority of the attribute type
sort_name(name) == Name(ConcatByOrder(name.attrs, NAME_ORDER))

\* utils.merge_x509_names: per attribute type the update's entries replace the
\* base's, types only in base are kept, and the result is sorted
merge_x509_names(base, update) ==
    LET kept == SelectSeq(base.attrs,
                    LAMBDA a : get_attributes_for_oid(update, a.oid) = <<>>)
    IN  sort_name(Name(kept \o update.attrs))

\* CommonName values that are no general name
UnparsableNames == {"foo bar"}

\* CommonName values that are IP address literals
IpLiterals == {"1.2.3.4"}

\* utils.parse_general_name raises ValueError
parse_general_name_raises(value) == value \in UnparsableNames

\* utils.parse_general_name: the typed general name of a string
parse_general_name(value) ==
    IF value \in IpLiterals THEN [t |-> "IP", v |-> value]
    ELSE [t |-> "DNS", v |-> value]

----------------------------------------------------------------------------
(* Configuration and the objects a caller passes in *)

AT == NameAttribute("C", "AT")

\* ca_settings.CA_DEFAULT_SUBJECT, as the test settings set it
CA_DEFAULT_SUBJECT ==
    Name(<<AT, NameAttribute("ST", "Vienna"), NameAttribute("L", "Vienna"),
           NameAttribute("O", "Django CA"), NameAttribute("OU", "Django CA Testsuite")>>)

ProfileOcspNoCheck == Extension(OCSP_NO_CHECK, FALSE, <<>>)

ProfileSan ==
    Extension(SUBJECT_ALTERNATIVE_NAME, FALSE, <<[t |-> "DNS", v |-> "profile.example.com"]>>)

ProfileAia ==
    Extension(AUTHORITY_INFORMATION_ACCESS, FALSE,
              <<[t |-> CA_ISSUERS, v |-> "http://profile.example.com/ca.crt"]>>)

\* ca_settings.CA_PROFILES: the constructor arguments of every configured profile
CA_PROFILES ==
    [name \in {"webserver", "client", "enduser", "ocsp", "legacy"} |->
        CASE name = "webserver" ->
                [subject |-> Name(<<AT, NameAttribute("OU", "Web"),
                                    NameAttribute("OU", "Hosting")>>),
                 algorithm |-> None,
                 extensions |-> ("ocsp_no_check" :> ProfileOcspNoCheck),
                 cn_in_san |-> TRUE, add_crl_url |-> TRUE, add_ocsp_url |-> TRUE,
                 add_issuer_url |-> TRUE, add_issuer_alternative_name |-> TRUE]
          [] name = "client" ->
                [subject |-> Name(<<AT, NameAttribute("CN", "old.example.com")>>),
                 algorithm |-> "SHA256",
                 extensions |-> ("authority_information_access" :> NoneExt)
                                    @@ ("ocsp_no_check" :> NoneExt),
                 cn_in_san |-> FALSE, add_crl_url |-> FALSE, add_ocsp_url |-> TRUE,
                 add_issuer_url |-> FALSE, add_issuer_alternative_name |-> FALSE]
          [] name = "enduser" ->
                [subject |-> FalseName, algorithm |-> "SHA512",
                 extensions |-> ("subject_alternative_name" :> ProfileSan)
                                    @@ ("authority_information_access" :> ProfileAia),
                 cn_in_san |-> TRUE, add_crl_url |-> TRUE, add_ocsp_url |-> FALSE,
                 add_issuer_url |-> TRUE, add_issuer_alternative_name |-> TRUE]
          [] name = "ocsp" ->
                [subject |-> NoneName, algorithm |-> None,
                 extensions |-> ("subject_alternative_name" :> NoneExt),
                 cn_in_san |-> FALSE, add_crl_url |-> TRUE, add_ocsp_url |-> TRUE,
                 add_issuer_url |-> TRUE, add_issuer_alternative_name |-> FALSE]
          [] OTHER ->
                [subject |-> NoneName, algorithm |-> "MD4", extensions |-> EmptyDict,
                 cn_in_san |-> TRUE, add_crl_url |-> TRUE, add_ocsp_url |-> TRUE,
                 add_issuer_url |-> TRUE, add_issuer_alternative_name |-> TRUE]]

\* ca_settings.CA_DEFAULT_PROFILE
CA_DEFAULT_PROFILE == "webserver"

CaAuthorityKeyIdentifier(name) ==
    Extension(AUTHORITY_KEY_IDENTIFIER, FALSE, <<[t |-> "key_identifier", v |-> name]>>)

CaIssuers == [t |-> CA_ISSUERS, v |-> "http://ca.example.com/ca.crt"]
CaOcsp == [t |-> OCSP, v |-> "http://ca.example.com/{OCSP_PATH}"]

\* The certificate authorities: a root CA with an RSA key that carries every
\* extension for its certificates, and a CA with an Ed25519 key, which has no
\* signature hash algorithm
CertificateAuthorities ==
    { [name |-> "root", algorithm |-> "SHA512",
       extensions_for_certificate |->
            (AUTHORITY_INFORMATION_ACCESS :>
                Extension(AUTHORITY_INFORMATION_ACCESS, FALSE, <<CaIssuers, CaOcsp>>))
         @@ (CRL_DISTRIBUTION_POINTS :>
                Extension(CRL_DISTRIBUTION_POINTS, FALSE,
                          <<[t |-> "URI", v |-> "http://ca.example.com/{CRL_PATH}"]>>))
         @@ (ISSUER_ALTERNATIVE_NAME :>
                Extension(ISSUER_ALTERNATIVE_NAME, FALSE,
                          <<[t |-> "URI", v |-> "https://ca.example.com"]>>))],
      [name |-> "ed25519", algorithm |-> None,
       extensions_for_certificate |-> EmptyDict] }

\* The general names a caller puts into a SubjectAlternativeName
\* the certificate signing requests callers pass (csr.public_key())
CertificateSigningRequests == {[public_key |-> "csr.public_key"]}

GeneralNames ==
    { [t |-> "DNS", v |-> "new.example.com"],
      [t |-> "IP", v |-> "1.2.3.4"],
      [t |-> "email", v |-> "user@example.com"] }

IsInjective(s) == \A i, j \in DOMAIN s : s[i] = s[j] => i = j

\* Lists of distinct general names, up to MaxSanLen long
SanValues ==
    UNION { {s \in [1..n -> GeneralNames] : IsInjective(s)} : n \in 0..MaxSanLen }

CallerOcspNoCheck == Extension(OCSP_NO_CHECK, TRUE, <<>>)

CallerAias ==
    { Extension(AUTHORITY_INFORMATION_ACCESS, TRUE,
                <<[t |-> OCSP, v |-> "http://caller.example.com/ocsp"]>>),
      Extension(AUTHORITY_INFORMATION_ACCESS, TRUE,
                <<[t |-> CA_ISSUERS, v |-> "http://caller.example.com/ca.crt"]>>) }

\* extensions={key: None}: iterating the dict yields the key, which is no
\* extension
DictKey(key) == [oid |-> "None", critical |-> FALSE, value |-> <<[t |-> "key", v |-> key]>>]

\* What a caller passes as one element of extensions
CallerExtensions ==
    { Extension(SUBJECT_ALTERNATIVE_NAME, FALSE, s) : s \in SanValues }
        \cup CallerAias \cup {CallerOcspNoCheck, DictKey("ocsp_no_check")}

\* What a caller passes as extensions (None and the empty list both give <<>>)
CallerExtensionLists == {<<>>} \cup { <<e>> : e \in CallerExtensions }

\* What a caller passes as subject
CallerSubjects ==
    { NoneName, Name(<<>>),
      Name(<<NameAttribute("CN", "new.example.com")>>),
      Name(<<NameAttribute("CN", "foo bar")>>),
      Name(<<NameAttribute("OU", "Sales")>>) }

\* What a caller passes as algorithm
CallerAlgorithms == {None, "SHA256"}

\* Optional[bool]: <<>> is None, <<b>> is the value b
OptionalBool == {<<>>, <<TRUE>>, <<FALSE>>}

----------------------------------------------------------------------------
(* Profile.__init__ *)

\* the OID under which __init__ stores the value configured under key
CastOid(extensions, key) ==
    IF extensions[key] = NoneExt THEN EXTENSION_KEY_OIDS[key] ELSE extensions[key].oid

\* Profile.__init__ raises ValueError (unknown hash algorithm)
Profile_raises(kwargs) ==
    kwargs.algorithm # None /\ kwargs.algorithm \notin HASH_ALGORITHM_TYPES

\* Variant of Profile: no default for BasicConstraints is set
Profile_no_default(name, kwargs) ==
    LET cast == [oid \in {CastOid(kwargs.extensions, k) : k \in DOMAIN kwargs.extensions} |->
                    kwargs.extensions[CHOOSE k \in DOMAIN kwargs.extensions :
                                            CastOid(kwargs.extensions, k) = oid]]
    IN  [name |-> name,
         subject |-> IF kwargs.subject = NoneName THEN CA_DEFAULT_SUBJECT
                     ELSE kwargs.subject,
         algorithm |-> kwargs.algorithm,
         cn_in_san |-> kwargs.cn_in_san,
         add_crl_url |-> kwargs.add_crl_url,
         add_issuer_url |-> kwargs.add_issuer_url,
         add_ocsp_url |-> kwargs.add_ocsp_url,
         add_issuer_alternative_name |-> kwargs.add_issuer_alternative_name,
         extensions |-> cast]

\* Profile.__init__: the attributes of the new instance
Profile(name, kwargs) ==
    LET cast == [oid \in {CastOid(kwargs.extensions, k) : k \in DOMAIN kwargs.extensions} |->
                    kwargs.extensions[CHOOSE k \in DOMAIN kwargs.extensions :
                                            CastOid(kwargs.extensions, k) = oid]]
    IN  [name |-> name,
         subject |-> IF kwargs.subject = NoneName THEN CA_DEFAULT_SUBJECT
                     ELSE kwargs.subject,
         algorithm |-> kwargs.algorithm,
         cn_in_san |-> kwargs.cn_in_san,
         add_crl_url |-> kwargs.add_crl_url,
         add_issuer_url |-> kwargs.add_issuer_url,
         add_ocsp_url |-> kwargs.add_ocsp_url,
         add_issuer_alternative_name |-> kwargs.add_issuer_alternative_name,
         extensions |->
            setdefault(cast, BASIC_CONSTRAINTS,
                       Extension(BASIC_CONSTRAINTS, BASIC_CONSTRAINTS_DEFAULT_CRITICAL,
                                 <<[t |-> "ca", v |-> "False"]>>))]

----------------------------------------------------------------------------
(* The helpers of Profile.create_cert *)

\* a parameter that is None takes the profile's value
Resolve(parameter, stored) == IF parameter = <<>> THEN stored ELSE parameter[1]

\* `ext.oid` fails for an element of extensions that is no extension
SeedRaises(extensions) == \E i \in DOMAIN extensions : extensions[i].oid = "None"

\* {ext.oid: ext for ext in extensions}: a later element replaces an earlier one
Seed(extensions) ==
    [oid \in {extensions[i].oid : i \in DOMAIN extensions} |->
        LET last == CHOOSE i \in DOMAIN extensions :
                        /\ extensions[i].oid = oid
                        /\ \A j \in DOMAIN extensions : extensions[j].oid = oid => j <= i
        IN  extensions[last]]

\* Variant of _get_extensions: the profile's value replaces the one passed
\* (update instead of setdefault)
_get_extensions_update(self_extensions, extensions) ==
    LET dropped == {oid \in DOMAIN self_extensions : self_extensions[oid] = NoneExt}
        defaults == (DOMAIN self_extensions) \ dropped
    IN  [oid \in ((DOMAIN extensions) \ dropped) \cup defaults |->
            IF oid \in defaults THEN self_extensions[oid] ELSE extensions[oid]]

\* Variant of _get_extensions: a None of the profile is skipped instead of
\* removing the entry
_get_extensions_skip_none(self_extensions, extensions) ==
    LET dropped == {oid \in DOMAIN self_extensions : self_extensions[oid] = NoneExt}
        defaults == (DOMAIN self_extensions) \ dropped
    IN  [oid \in (DOMAIN extensions) \cup defaults |->
            IF oid \in DOMAIN extensions THEN extensions[oid] ELSE self_extensions[oid]]

\* Profile._get_extensions: None removes the entry, anything else is a default
_get_extensions(self_extensions, extensions) ==
    LET dropped == {oid \in DOMAIN self_extensions : self_extensions[oid] = NoneExt}
        defaults == (DOMAIN self_extensions) \ dropped
    IN  [oid \in ((DOMAIN extensions) \ dropped) \cup defaults |->
            IF oid \in DOMAIN extensions THEN extensions[oid] ELSE self_extensions[oid]]

\* sorted(access_descriptions, key=lambda ad: ad.access_method.dotted_string):
\* OCSP is 1.3.6.1.5.5.7.48.1, CA_ISSUERS is 1.3.6.1.5.5.7.48.2; the sort is stable
SortAccessDescriptions(access_descriptions) ==
    SelectSeq(access_descriptions, LAMBDA ad : ad.t = OCSP)
        \o SelectSeq(access_descriptions, LAMBDA ad : ad.t = CA_ISSUERS)

\* Variant of _update_authority_information_access: the CA's entries are added
\* whether or not the extension already names an OCSP responder or an issuer
_update_authority_information_access_always(extensions, ca_extensions, issuer_url, ocsp_url) ==
    LET oid == AUTHORITY_INFORMATION_ACCESS
    IN  IF oid \notin DOMAIN ca_extensions THEN extensions
        ELSE
        LET ca_aia_ext == ca_extensions[oid]
            present == oid \in DOMAIN extensions
            existing == IF present THEN extensions[oid].value ELSE <<>>
            critical == IF present THEN extensions[oid].critical ELSE ca_aia_ext.critical
            with_issuers ==
                IF issuer_url
                THEN existing \o SelectSeq(ca_aia_ext.value,
                        LAMBDA ad : ad \notin Range(existing) /\ ad.t = CA_ISSUERS)
                ELSE existing
            with_ocsp ==
                IF ocsp_url
                THEN with_issuers \o SelectSeq(ca_aia_ext.value,
                        LAMBDA ad : ad \notin Range(with_issuers) /\ ad.t = OCSP)
                ELSE with_issuers
            access_descriptions == SortAccessDescriptions(with_ocsp)
        IN  IF access_descriptions # <<>>
            THEN setitem(extensions, oid, Extension(oid, critical, access_descriptions))
            ELSE extensions

\* Profile._update_authority_information_access
_update_authority_information_access(extensions, ca_extensions, issuer_url, ocsp_url) ==
    LET oid == AUTHORITY_INFORMATION_ACCESS
    IN  IF oid \notin DOMAIN ca_extensions THEN extensions
        ELSE
        LET ca_aia_ext == ca_extensions[oid]
            present == oid \in DOMAIN extensions
            existing == IF present THEN extensions[oid].value ELSE <<>>
            has_ocsp == \E ad \in Range(existing) : ad.t = OCSP
            has_issuer == \E ad \in Range(existing) : ad.t = CA_ISSUERS
            critical == IF present THEN extensions[oid].critical ELSE ca_aia_ext.critical
            with_issuers ==
                IF issuer_url /\ ~has_issuer
                THEN existing \o SelectSeq(ca_aia_ext.value,
                        LAMBDA ad : ad \notin Range(existing) /\ ad.t = CA_ISSUERS)
                ELSE existing
            with_ocsp ==
                IF ocsp_url /\ ~has_ocsp
                THEN with_issuers \o SelectSeq(ca_aia_ext.value,
                        LAMBDA ad : ad \notin Range(with_issuers) /\ ad.t = OCSP)
                ELSE with_issuers
            access_descriptions == SortAccessDescriptions(with_ocsp)
        IN  IF access_descriptions # <<>>
            THEN setitem(extensions, oid, Extension(oid, critical, access_descriptions))
            ELSE extensions

\* Profile._add_crl_distribution_points
_add_crl_distribution_points(extensions, ca_extensions) ==
    IF CRL_DISTRIBUTION_POINTS \notin DOMAIN ca_extensions THEN extensions
    ELSE IF CRL_DISTRIBUTION_POINTS \in DOMAIN extensions THEN extensions
    ELSE setitem(extensions, CRL_DISTRIBUTION_POINTS, ca_extensions[CRL_DISTRIBUTION_POINTS])

\* Profile._update_issuer_alternative_name
_update_issuer_alternative_name(extensions, ca_extensions) ==
    IF ISSUER_ALTERNATIVE_NAME \in DOMAIN ca_extensions
            /\ ISSUER_ALTERNATIVE_NAME \notin DOMAIN extensions
    THEN setitem(extensions, ISSUER_ALTERNATIVE_NAME, ca_extensions[ISSUER_ALTERNATIVE_NAME])
    ELSE extensions

\* Variant of _update_from_ca: the CRL URL is added whatever add_crl_url says
_update_from_ca_crl_always(authority, extensions, crl_url, ocsp_url, issuer_url, issuer_alternative_name) ==
    LET ca_extensions == authority.extensions_for_certificate
        with_aki == setdefault(extensions, AUTHORITY_KEY_IDENTIFIER,
                               CaAuthorityKeyIdentifier(authority.name))
        with_crl == _add_crl_distribution_points(with_aki, ca_extensions)
        with_aia == _update_authority_information_access(with_crl, ca_extensions,
                                                         issuer_url, ocsp_url)
    IN  IF issuer_alternative_name # FALSE
        THEN _update_issuer_alternative_name(with_aia, ca_extensions)
        ELSE with_aia

\* Profile._update_from_ca
_update_from_ca(authority, extensions, crl_url, ocsp_url, issuer_url, issuer_alternative_name) ==
    LET ca_extensions == authority.extensions_for_certificate
        with_aki == setdefault(extensions, AUTHORITY_KEY_IDENTIFIER,
                               CaAuthorityKeyIdentifier(authority.name))
        with_crl == IF crl_url THEN _add_crl_distribution_points(with_aki, ca_extensions)
                    ELSE with_aki
        with_aia == _update_authority_information_access(with_crl, ca_extensions,
                                                         issuer_url, ocsp_url)
    IN  IF issuer_alternative_name # FALSE
        THEN _update_issuer_alternative_name(with_aia, ca_extensions)
        ELSE with_aia

\* Variant of MergeSubjects: the arguments of merge_x509_names are swapped
MergeSubjectsSwapped(self_subject, given) ==
    IF self_subject # FalseName /\ self_subject # NoneName
    THEN IF given # NoneName THEN merge_x509_names(given, self_subject) ELSE self_subject
    ELSE given

\* lines 282-286 of create_cert: the profile's subject and the caller's
MergeSubjects(self_subject, given) ==
    IF self_subject # FalseName /\ self_subject # NoneName
    THEN IF given # NoneName THEN merge_x509_names(self_subject, given) ELSE self_subject
    ELSE given

\* the DNSName and IPAddress entries of a SubjectAlternativeName value
CnCandidates(value) == SelectSeq(value, LAMBDA gn : gn.t \in {"DNS", "IP"})

\* Variant of _update_cn_from_san: the first entry is taken, whatever its type
_update_cn_from_san_any_type(name, extensions) ==
    IF name # NoneName /\ get_attributes_for_oid(name, COMMON_NAME) # <<>> THEN name
    ELSE IF SUBJECT_ALTERNATIVE_NAME \in DOMAIN extensions
                /\ extensions[SUBJECT_ALTERNATIVE_NAME].value # <<>>
    THEN LET common_name == extensions[SUBJECT_ALTERNATIVE_NAME].value[1].v
             common_name_name == Name(<<NameAttribute(COMMON_NAME, common_name)>>)
         IN  IF name = NoneName THEN common_name_name
             ELSE merge_x509_names(name, common_name_name)
    ELSE name

\* Profile._update_cn_from_san
_update_cn_from_san(name, extensions) ==
    IF name # NoneName /\ get_attributes_for_oid(name, COMMON_NAME) # <<>> THEN name
    ELSE IF SUBJECT_ALTERNATIVE_NAME \in DOMAIN extensions
                /\ CnCandidates(extensions[SUBJECT_ALTERNATIVE_NAME].value) # <<>>
    THEN LET common_name == CnCandidates(extensions[SUBJECT_ALTERNATIVE_NAME].value)[1].v
             common_name_name == Name(<<NameAttribute(COMMON_NAME, common_name)>>)
         IN  IF name = NoneName THEN common_name_name
             ELSE merge_x509_names(name, common_name_name)
    ELSE name

\* Variant of ResolveAlgorithm: the profile's algorithm is never looked at
ResolveAlgorithmFromCa(given, self_algorithm, ca_algorithm) ==
    IF given = None /\ ca_algorithm # None THEN ca_algorithm ELSE given

\* lines 295-299 of create_cert
ResolveAlgorithm(given, self_algorithm, ca_algorithm) ==
    IF given = None /\ ca_algorithm # None
    THEN IF self_algorithm # None THEN self_algorithm ELSE ca_algorithm
    ELSE given

\* Profile._update_san_from_cn raises ValueError
_update_san_from_cn_raises(in_san, name) ==
    /\ in_san # FALSE
    /\ get_attributes_for_oid(name, COMMON_NAME) # <<>>
    /\ parse_general_name_raises(get_attributes_for_oid(name, COMMON_NAME)[1].value)

\* Variant of _update_san_from_cn: only the first entry is compared with the
\* CommonName
_update_san_from_cn_first(in_san, name, extensions) ==
    IF in_san = FALSE THEN extensions
    ELSE IF get_attributes_for_oid(name, COMMON_NAME) = <<>> THEN extensions
    ELSE
    LET common_name == parse_general_name(get_attributes_for_oid(name, COMMON_NAME)[1].value)
    IN  IF SUBJECT_ALTERNATIVE_NAME \in DOMAIN extensions
        THEN LET san_ext == extensions[SUBJECT_ALTERNATIVE_NAME]
             IN  IF san_ext.value = <<>> \/ common_name # san_ext.value[1]
                 THEN setitem(extensions, SUBJECT_ALTERNATIVE_NAME,
                              Extension(SUBJECT_ALTERNATIVE_NAME, san_ext.critical,
                                        Append(san_ext.value, common_name)))
                 ELSE extensions
        ELSE setitem(extensions, SUBJECT_ALTERNATIVE_NAME,
                     Extension(SUBJECT_ALTERNATIVE_NAME, FALSE, <<common_name>>))

\* Profile._update_san_from_cn
_update_san_from_cn(in_san, name, extensions) ==
    IF in_san = FALSE THEN extensions
    ELSE IF get_attributes_for_oid(name, COMMON_NAME) = <<>> THEN extensions
    ELSE
    LET common_name == parse_general_name(get_attributes_for_oid(name, COMMON_NAME)[1].value)
    IN  IF SUBJECT_ALTERNATIVE_NAME \in DOMAIN extensions
        THEN LET san_ext == extensions[SUBJECT_ALTERNATIVE_NAME]
             IN  IF common_name \notin Range(san_ext.value)
                 THEN setitem(extensions, SUBJECT_ALTERNATIVE_NAME,
                              Extension(SUBJECT_ALTERNATIVE_NAME, san_ext.critical,
                                        Append(san_ext.value, common_name)))
                 ELSE extensions
        ELSE setitem(extensions, SUBJECT_ALTERNATIVE_NAME,
                     Extension(SUBJECT_ALTERNATIVE_NAME, FALSE, <<common_name>>))

\* dict.get(k)
get(d, k) == IF k \in DOMAIN d THEN d[k] ELSE NoneExt

\* bool(x) of None or an x509.Extension: the class defines neither __bool__ nor
\* __len__, so every extension is true, whatever its value holds
Truthy(ext) == ext # NoneExt

\* lines 307-310 of create_cert: the call raises "Must name at least a CN or a
\* subjectAlternativeName."
MustNameRaises(name, extensions) ==
    /\ get_attributes_for_oid(name, COMMON_NAME) = <<>>
    /\ ~Truthy(get(extensions, SUBJECT_ALTERNATIVE_NAME))

\* format_extensions: a location with placeholders, formatted for this certificate
FormatLocation(v) ==
    CASE v = "http://ca.example.com/{OCSP_PATH}" -> "http://ca.example.com/ocsp/A1/cert/"
      [] v = "http://ca.example.com/{CRL_PATH}" -> "http://ca.example.com/crl/A1/"
      [] OTHER -> v

\* format_extensions: the URL-bearing extensions get their placeholders replaced
format_extensions(extensions) ==
    [oid \in DOMAIN extensions |->
        IF oid \in {AUTHORITY_INFORMATION_ACCESS, CRL_DISTRIBUTION_POINTS}
        THEN [extensions[oid] EXCEPT !.value =
                [i \in DOMAIN extensions[oid].value |->
                    [extensions[oid].value[i] EXCEPT !.v = FormatLocation(@)]]]
        ELSE extensions[oid]]

\* Variant of cert_extensions_object: no dict is built, the profile's is used
cert_extensions_object_profile == "self.extensions"

\* lines 265-268: the object the name cert_extensions is bound to.  Both
\* branches build a dict inside the call; the other mappings the call can
\* reach are self.extensions and ca.extensions_for_certificate
cert_extensions_object == "cert_extensions"

\* the Profile as it is after an in-place update of cert_extensions (pop,
\* setdefault and item assignment of lines 164-169, 388-456, 521-553, and the
\* in-place call of line 315)
ProfileAfterUpdate(profile, mapping) ==
    IF cert_extensions_object = "self.extensions"
    THEN [profile EXCEPT !.extensions = mapping]
    ELSE profile

\* the CA as it is after an in-place update of cert_extensions
CaAfterUpdate(authority, mapping) ==
    IF cert_extensions_object = "ca.extensions_for_certificate"
    THEN [authority EXCEPT !.extensions_for_certificate = mapping]
    ELSE authority

\* lines 330-345 of create_cert: the certificate the builder signs
BuildCertificate(authority, request, name, extensions, hash) ==
    [issuer |-> authority.name,
     subject |-> name,
     algorithm |-> hash,
     extensions |->
        setdefault(extensions, SUBJECT_KEY_IDENTIFIER,
                   Extension(SUBJECT_KEY_IDENTIFIER, FALSE,
                             <<[t |-> "digest", v |-> request.public_key]>>))]

----------------------------------------------------------------------------
(* The state machine *)

NoCertificate ==
    [issuer |-> None, subject |-> NoneName, algorithm |-> None, extensions |-> EmptyDict]

NoResult == [kind |-> "none", exception |-> None, message |-> None, certificate |-> NoCertificate]

Raised(exception, message) ==
    [kind |-> "raised", exception |-> exception, message |-> message,
     certificate |-> NoCertificate]

Returned(certificate) ==
    [kind |-> "returned", exception |-> None, message |-> None, certificate |-> certificate]

NoArgs == [subject |-> NoneName, algorithm |-> None, extensions |-> <<>>]

NoCa == [name |-> None, algorithm |-> None, extensions_for_certificate |-> EmptyDict]

NoCsr == [public_key |-> None]

\* no call is in progress: the frame of create_cert holds nothing
NoFrame ==
    /\ pc = "idle"
    /\ ca = NoCa
    /\ csr = NoCsr
    /\ args = NoArgs
    /\ subject = NoneName
    /\ algorithm = None
    /\ cn_in_san = FALSE
    /\ add_crl_url = FALSE
    /\ add_ocsp_url = FALSE
    /\ add_issuer_url = FALSE
    /\ add_issuer_alternative_name = FALSE
    /\ cert_extensions = EmptyDict
    /\ pre_sign_cert = 0
    /\ result = NoResult

frame == <<ca, csr, args, subject, algorithm, cn_in_san, add_crl_url, add_ocsp_url,
           add_issuer_url, add_issuer_alternative_name, cert_extensions, pre_sign_cert,
           result>>

toggles == <<cn_in_san, add_crl_url, add_ocsp_url, add_issuer_url,
             add_issuer_alternative_name>>

----------------------------------------------------------------------------
(* The other components before anything has happened in them *)

Threads == {"t1", "t2"}

\* a thread that is not inside the registry or the proxy
IdleThread ==
    [pc |-> "idle", op |-> None, name |-> None, other |-> 0, default_at_call |-> None,
     config_at_call |-> None, returned |-> 0, from_cache |-> FALSE, changed |-> FALSE,
     exception |-> None, observed |-> FALSE]

\* local(): an object without the attribute profiles
NoLocal == [has_profiles |-> FALSE, profiles |-> EmptyDict]

\* profiles = Profiles() (line 601), as the module is imported
RegistryInit ==
    /\ ca_settings = [CA_DEFAULT_PROFILE |-> CA_DEFAULT_PROFILE, CA_PROFILES |-> CA_PROFILES]
    /\ heap = <<>>
    /\ _profiles = [t \in Threads |-> NoLocal]
    /\ thread = [t \in Threads |-> IdleThread]
    /\ seen = [t \in Threads |-> EmptyDict]

Workers == {"w1", "w2"}

\* no response was built
NoResponse == [cls |-> None, status |-> 0, typ |-> None, detail |-> None]

\* a worker that handles no request
IdleWorker ==
    [pc |-> "idle", serial |-> None, nonce |-> 0, slug |-> None, checked |-> FALSE,
     count |-> 0, known |-> FALSE, ran |-> FALSE, order_status |-> None,
     response |-> NoResponse, exception |-> None]

\* an empty cache and an empty database
AcmeEmpty ==
    /\ cache = EmptyDict
    /\ accepted = EmptyDict
    /\ acme_certificates = {}
    /\ tasks = 0
    /\ worker = [w \in Workers |-> IdleWorker]

\* views at rest, one order that is still pending
AcmeInit ==
    /\ AcmeEmpty
    /\ orders = [slug \in {"order"} |-> "pending"]

\* no container operation was made
NoOperation == [op |-> None, native |-> None, ext |-> None]

\* empty containers
ContainerInit ==
    /\ native_list = <<>>
    /\ list_ext = <<>>
    /\ native_set = {}
    /\ set_ext = {}
    /\ last_op = NoOperation

\* no call of Command.handle is in progress
IdleCommand == [pc |-> "idle", name |-> None, parent |-> None, expires |-> 0, expires_datetime |-> 0]

\* no certificate authority yet
InitCaInit ==
    /\ clock = 0
    /\ authorities = EmptyDict
    /\ command = IdleCommand

\* an empty cache, nothing revoked
CrlInit ==
    /\ crl_cache = EmptyDict
    /\ crl_number = 0

STATUS_PENDING == "pending"
STATUS_VALID == "valid"
STATUS_INVALID == "invalid"

TYPE_HTTP_01 == "http-01"
TYPE_TLS_ALPN_01 == "tls-alpn-01"

\* the authorizations of the order
Auths == {"a1", "a2"}

\* the challenges: one per authorization
Challenges == {"c1", "c2"}

\* challenge.auth
AuthOf(challenge) == IF challenge = "c1" THEN "a1" ELSE "a2"

\* the task did not run yet
NoRun == [challenge |-> None, enabled |-> FALSE, response |-> None]

\* AcmeOrder.objects.create, AcmeAuthorization.objects.create: an order and
\* its authorizations, all pending, and no task scheduled
ChallengeEmpty ==
    /\ acme_order = STATUS_PENDING
    /\ authorizations = [a \in Auths |-> STATUS_PENDING]
    /\ validations = [c \in Challenges |-> 0]
    /\ task_run = NoRun

\* AcmeChallenge.objects.create(auth=..., type=AcmeChallenge.TYPE_HTTP_01)
ChallengeInit ==
    /\ ChallengeEmpty
    /\ challenges = [c \in Challenges |-> [type |-> TYPE_HTTP_01, status |-> STATUS_PENDING]]

\* the initial state of the components after the ACME views
MoreInit ==
    /\ ContainerInit
    /\ InitCaInit
    /\ CrlInit
    /\ ChallengeInit

----------------------------------------------------------------------------
(* Profile.create_cert, step by step *)

Init ==
    /\ self = Profile(CA_DEFAULT_PROFILE, CA_PROFILES[CA_DEFAULT_PROFILE])
    /\ init_error = None
    /\ init_kwargs = CA_PROFILES[CA_DEFAULT_PROFILE]
    /\ NoFrame
    /\ RegistryInit
    /\ AcmeInit
    /\ MoreInit

\* get_profile(name): Profile(name, **ca_settings.CA_PROFILES[name])
get_profile(name) ==
    /\ UNCHANGED other_components
    /\ pc = "idle"
    /\ IF Profile_raises(CA_PROFILES[name])
       THEN /\ init_error' = "ValueError"
            /\ UNCHANGED <<self, init_kwargs>>
       ELSE /\ init_error' = None
            /\ self' = Profile(name, CA_PROFILES[name])
            /\ init_kwargs' = CA_PROFILES[name]
    /\ UNCHANGED <<pc, frame>>

\* create_cert is called (lines 254-268): the toggles are resolved and the
\* working mapping is seeded from the extensions passed
create_cert(authority, request, given_subject, given_algorithm, extensions, in_san, crl_url, ocsp_url, issuer_url, issuer_alternative_name) ==
    /\ UNCHANGED other_components
    /\ pc = "idle"
    /\ ca' = authority
    /\ csr' = request
    /\ args' = [subject |-> given_subject, algorithm |-> given_algorithm,
                extensions |-> extensions]
    /\ subject' = given_subject
    /\ algorithm' = given_algorithm
    /\ cn_in_san' = Resolve(in_san, self.cn_in_san)
    /\ add_crl_url' = Resolve(crl_url, self.add_crl_url)
    /\ add_ocsp_url' = Resolve(ocsp_url, self.add_ocsp_url)
    /\ add_issuer_url' = Resolve(issuer_url, self.add_issuer_url)
    /\ add_issuer_alternative_name' =
            Resolve(issuer_alternative_name, self.add_issuer_alternative_name)
    /\ pre_sign_cert' = 0
    /\ IF SeedRaises(extensions)
       THEN /\ cert_extensions' = EmptyDict
            /\ result' = Raised("AttributeError", "object has no attribute 'oid'")
            /\ pc' = "done"
       ELSE /\ cert_extensions' = Seed(extensions)
            /\ result' = NoResult
            /\ pc' = "get_extensions"
    /\ UNCHANGED <<self, init_error, init_kwargs>>

\* line 271
GetExtensions ==
    /\ UNCHANGED other_components
    /\ pc = "get_extensions"
    /\ cert_extensions' = _get_extensions(self.extensions, cert_extensions)
    /\ pc' = "update_from_ca"
    /\ self' = ProfileAfterUpdate(self, cert_extensions')
    /\ ca' = CaAfterUpdate(ca, cert_extensions')
    /\ UNCHANGED <<init_error, init_kwargs, csr, args, subject, algorithm, toggles,
                   pre_sign_cert, result>>

\* lines 273-280
UpdateFromCa ==
    /\ UNCHANGED other_components
    /\ pc = "update_from_ca"
    /\ cert_extensions' = _update_from_ca(ca, cert_extensions, add_crl_url, add_ocsp_url,
                                          add_issuer_url, add_issuer_alternative_name)
    /\ pc' = "merge_subject"
    /\ self' = ProfileAfterUpdate(self, cert_extensions')
    /\ ca' = CaAfterUpdate(ca, cert_extensions')
    /\ UNCHANGED <<init_error, init_kwargs, csr, args, subject, algorithm, toggles,
                   pre_sign_cert, result>>

\* lines 282-286
MergeSubject ==
    /\ UNCHANGED other_components
    /\ pc = "merge_subject"
    /\ subject' = MergeSubjects(self.subject, subject)
    /\ pc' = "update_cn_from_san"
    /\ UNCHANGED <<self, init_error, init_kwargs, ca, csr, args, algorithm, toggles,
                   cert_extensions,
                   pre_sign_cert, result>>

\* lines 288-299: the CommonName from the SubjectAlternativeName, the sorted
\* subject and the algorithm
UpdateCnFromSan ==
    /\ UNCHANGED other_components
    /\ pc = "update_cn_from_san"
    /\ LET updated == _update_cn_from_san(subject, cert_extensions)
       IN  IF updated = NoneName
           THEN /\ subject' = updated
                /\ result' = Raised("ValueError", "Cannot determine subject for certificate.")
                /\ pc' = "done"
                /\ UNCHANGED algorithm
           ELSE /\ subject' = sort_name(updated)
                /\ algorithm' = ResolveAlgorithm(algorithm, self.algorithm, ca.algorithm)
                /\ pc' = "update_san_from_cn"
                /\ UNCHANGED result
    /\ UNCHANGED <<self, init_error, init_kwargs, ca, csr, args, toggles, cert_extensions,
                   pre_sign_cert>>

\* line 305
UpdateSanFromCn ==
    /\ UNCHANGED other_components
    /\ pc = "update_san_from_cn"
    /\ IF _update_san_from_cn_raises(cn_in_san, subject)
       THEN /\ result' = Raised("ValueError",
                                "Could not parse CommonName as subjectAlternativeName.")
            /\ pc' = "done"
            /\ UNCHANGED cert_extensions
       ELSE /\ cert_extensions' = _update_san_from_cn(cn_in_san, subject, cert_extensions)
            /\ pc' = "check"
            /\ UNCHANGED result
    /\ self' = ProfileAfterUpdate(self, cert_extensions')
    /\ ca' = CaAfterUpdate(ca, cert_extensions')
    /\ UNCHANGED <<init_error, init_kwargs, csr, args, subject, algorithm, toggles, pre_sign_cert>>

\* Variant of CheckAndFormat: the signal is sent before the check
CheckAndFormatSignalFirst ==
    /\ UNCHANGED other_components
    /\ pc = "check"
    /\ pre_sign_cert' = pre_sign_cert + 1
    /\ IF MustNameRaises(subject, cert_extensions)
       THEN /\ result' = Raised("ValueError",
                                "Must name at least a CN or a subjectAlternativeName.")
            /\ pc' = "done"
            /\ UNCHANGED cert_extensions
       ELSE /\ cert_extensions' = format_extensions(cert_extensions)
            /\ pc' = "sign"
            /\ UNCHANGED result
    /\ self' = ProfileAfterUpdate(self, cert_extensions')
    /\ ca' = CaAfterUpdate(ca, cert_extensions')
    /\ UNCHANGED <<init_error, init_kwargs, csr, args, subject, algorithm, toggles>>

\* lines 307-317: the CN-or-SAN check, then the extensions are formatted
CheckAndFormat ==
    /\ UNCHANGED other_components
    /\ pc = "check"
    /\ IF MustNameRaises(subject, cert_extensions)
       THEN /\ result' = Raised("ValueError",
                                "Must name at least a CN or a subjectAlternativeName.")
            /\ pc' = "done"
            /\ UNCHANGED cert_extensions
       ELSE /\ cert_extensions' = format_extensions(cert_extensions)
            /\ pc' = "pre_sign_cert"
            /\ UNCHANGED result
    /\ self' = ProfileAfterUpdate(self, cert_extensions')
    /\ ca' = CaAfterUpdate(ca, cert_extensions')
    /\ UNCHANGED <<init_error, init_kwargs, csr, args, subject, algorithm, toggles, pre_sign_cert>>

\* lines 319-328: the signal is sent; a receiver may raise
PreSignCert ==
    /\ UNCHANGED other_components
    /\ pc = "pre_sign_cert"
    /\ pre_sign_cert' = pre_sign_cert + 1
    /\ \E receiver_raises \in BOOLEAN :
        IF receiver_raises
        THEN /\ result' = Raised("Exception", "pre_sign_cert receiver")
             /\ pc' = "done"
        ELSE /\ pc' = "sign"
             /\ UNCHANGED result
    /\ UNCHANGED <<self, init_error, init_kwargs, ca, csr, args, subject, algorithm, toggles,
                   cert_extensions>>

\* lines 330-345: the certificate is built and signed; ca.key(password) may raise
Sign ==
    /\ UNCHANGED other_components
    /\ pc = "sign"
    /\ \E key_loads \in BOOLEAN :
        IF key_loads
        THEN result' = Returned(BuildCertificate(ca, csr, subject, cert_extensions, algorithm))
        ELSE result' = Raised("Exception", "ca.key")
    /\ pc' = "done"
    /\ UNCHANGED <<self, init_error, init_kwargs, ca, csr, args, subject, algorithm, toggles,
                   cert_extensions,
                   pre_sign_cert>>

\* the call returns or raises: its frame is gone
Return ==
    /\ UNCHANGED other_components
    /\ pc = "done"
    /\ pc' = "idle"
    /\ ca' = NoCa
    /\ csr' = NoCsr
    /\ args' = NoArgs
    /\ subject' = NoneName
    /\ algorithm' = None
    /\ cn_in_san' = FALSE
    /\ add_crl_url' = FALSE
    /\ add_ocsp_url' = FALSE
    /\ add_issuer_url' = FALSE
    /\ add_issuer_alternative_name' = FALSE
    /\ cert_extensions' = EmptyDict
    /\ pre_sign_cert' = 0
    /\ result' = NoResult
    /\ UNCHANGED <<self, init_error, init_kwargs>>

Next ==
    \/ \E name \in DOMAIN CA_PROFILES : get_profile(name)
    \/ /\ pc = "idle"
       /\ \E authority \in CertificateAuthorities, request \in CertificateSigningRequests,
             given_subject \in CallerSubjects,
             given_algorithm \in CallerAlgorithms, extensions \in CallerExtensionLists,
             in_san, crl_url, ocsp_url, issuer_url, issuer_alternative_name \in OptionalBool :
                create_cert(authority, request, given_subject, given_algorithm, extensions, in_san,
                            crl_url, ocsp_url, issuer_url, issuer_alternative_name)
    \/ GetExtensions
    \/ UpdateFromCa
    \/ MergeSubject
    \/ UpdateCnFromSan
    \/ UpdateSanFromCn
    \/ CheckAndFormat
    \/ PreSignCert
    \/ Sign
    \/ Return

Spec == Init /\ [][Next]_vars

----------------------------------------------------------------------------
(* Properties of Profile.create_cert *)

\* the extensions the caller passed, as a set
Passed == Range(args.extensions)

Declares(oid) == oid \in DOMAIN self.extensions /\ self.extensions[oid] # NoneExt

Suppresses(oid) == oid \in DOMAIN self.extensions /\ self.extensions[oid] = NoneExt

\* C1: right after the profile's extensions are overlaid, every extension the
\* caller passed for an OID the profile declares (with a value, not None) is
\* the one in the working mapping.
C1_CallerExtensionWins ==
    pc = "update_from_ca" =>
        \A ext \in Passed :
            Declares(ext.oid) =>
                ext.oid \in DOMAIN cert_extensions /\ cert_extensions[ext.oid] = ext

C1_Witness ==
    /\ pc = "update_from_ca"
    /\ \E ext \in Passed :
        /\ Declares(ext.oid)
        /\ self.extensions[ext.oid] # ext
        /\ cert_extensions[ext.oid] = ext

\* C2: right after the profile's extensions are overlaid, the working mapping
\* has no entry for an OID the profile maps to None, also when the caller
\* passed an extension for it.
C2_SuppressedExtensionRemoved ==
    pc = "update_from_ca" =>
        \A oid \in DOMAIN self.extensions :
            Suppresses(oid) => oid \notin DOMAIN cert_extensions

C2_Witness ==
    /\ pc = "update_from_ca"
    /\ \E ext \in Passed : Suppresses(ext.oid) /\ ext.oid \notin DOMAIN cert_extensions

\* the subject has no CommonName and the working SubjectAlternativeName is
\* absent or has no entries
NoCnNoSan ==
    /\ get_attributes_for_oid(subject, COMMON_NAME) = <<>>
    /\ \/ SUBJECT_ALTERNATIVE_NAME \notin DOMAIN cert_extensions
       \/ cert_extensions[SUBJECT_ALTERNATIVE_NAME].value = <<>>

\* C3: a call whose final subject has no CommonName and whose working
\* SubjectAlternativeName is absent or empty never gets past the CN-or-SAN
\* check: it sends no signal and signs no certificate.
C3_NoCnNoSanRaises ==
    (pc \in {"pre_sign_cert", "sign"} \/ (pc = "done" /\ result.kind = "returned"))
        => ~NoCnNoSan

\* the access descriptions of the AuthorityInformationAccess of a mapping
AiaOf(extensions) ==
    IF AUTHORITY_INFORMATION_ACCESS \in DOMAIN extensions
    THEN extensions[AUTHORITY_INFORMATION_ACCESS].value
    ELSE <<>>

Methods(access_descriptions) == {ad.t : ad \in Range(access_descriptions)}

CaHasAia == AUTHORITY_INFORMATION_ACCESS \in DOMAIN ca.extensions_for_certificate

\* C4: when the CA has an AuthorityInformationAccess, the update from the CA
\* keeps every access description of the working extension, adds only access
\* descriptions of the CA, adds CA-Issuers ones only if add_issuer_url holds
\* and the working extension had none, and adds OCSP ones only if add_ocsp_url
\* holds and the working extension had none.
C4_AiaMerge ==
    [][(pc = "update_from_ca" /\ CaHasAia) =>
        LET old == AiaOf(cert_extensions)
            new == AiaOf(cert_extensions')
            gained == Range(new) \ Range(old)
        IN  /\ Range(old) \subseteq Range(new)
            /\ gained \subseteq Range(AiaOf(ca.extensions_for_certificate))
            /\ (\E ad \in gained : ad.t = CA_ISSUERS)
                    => add_issuer_url /\ CA_ISSUERS \notin Methods(old)
            /\ (\E ad \in gained : ad.t = OCSP)
                    => add_ocsp_url /\ OCSP \notin Methods(old)]_vars

C4_Witness ==
    /\ pc = "merge_subject"
    /\ CaHasAia
    /\ add_issuer_url /\ add_ocsp_url
    /\ \E ext \in Passed :
        /\ ext.oid = AUTHORITY_INFORMATION_ACCESS
        /\ Methods(ext.value) = {OCSP}
        /\ Range(ext.value) \subseteq Range(AiaOf(cert_extensions))
        /\ CaIssuers \in Range(AiaOf(cert_extensions))
        /\ CaOcsp \notin Range(AiaOf(cert_extensions))

\* the algorithm the claim as written expects
ExpectedAlgorithmAsWritten ==
    IF args.algorithm # None THEN args.algorithm
    ELSE IF self.algorithm # None THEN self.algorithm
    ELSE ca.algorithm

\* the algorithm create_cert signs with
ExpectedAlgorithm ==
    IF args.algorithm # None THEN args.algorithm
    ELSE IF ca.algorithm = None THEN None
    ELSE IF self.algorithm # None THEN self.algorithm
    ELSE ca.algorithm

\* C5 as written: the certificate is signed with the algorithm passed, else
\* the profile's, else the CA's.
C5_AlgorithmAsWritten ==
    (pc = "done" /\ result.kind = "returned")
        => result.certificate.algorithm = ExpectedAlgorithmAsWritten

\* C5, amended: the certificate is signed with the algorithm passed; without
\* one, and with a CA that has a hash algorithm, with the profile's algorithm
\* if it has one and else with the CA's; without one, and with a CA that has
\* no hash algorithm, with none, also when the profile has one.
C5_Algorithm ==
    (pc = "done" /\ result.kind = "returned")
        => result.certificate.algorithm = ExpectedAlgorithm

C5_Witness ==
    /\ pc = "done"
    /\ result.kind = "returned"
    /\ args.algorithm = None
    /\ self.algorithm = "SHA256"
    /\ ca.algorithm = "SHA512"
    /\ result.certificate.algorithm = "SHA256"

\* C6: with a profile that declares OCSPNoCheck and a caller that passes
\* extensions={"ocsp_no_check": None}, the call does not fail on that argument,
\* and a certificate it returns has no OCSPNoCheck extension.
C6_HideExtension ==
    (pc = "done" /\ Declares(OCSP_NO_CHECK) /\ args.extensions = <<DictKey("ocsp_no_check")>>)
        => /\ result.exception # "AttributeError"
           /\ result.kind = "returned"
                => OCSP_NO_CHECK \notin DOMAIN result.certificate.extensions

\* the general name of the subject's first CommonName
CommonNameAsGeneralName ==
    parse_general_name(get_attributes_for_oid(subject, COMMON_NAME)[1].value)

HasCommonName == get_attributes_for_oid(subject, COMMON_NAME) # <<>>

\* C7: with cn_in_san and a CommonName, the step that adds the CommonName to
\* an existing SubjectAlternativeName leaves the extension as it is when the
\* CommonName's general name is one of its entries, at whatever position, and
\* else appends it once; the certificate carries the extension so obtained.
C7_CnInSanNoDuplicate ==
    [][/\ (/\ pc = "update_san_from_cn"
           /\ pc' = "check"
           /\ cn_in_san
           /\ HasCommonName
           /\ SUBJECT_ALTERNATIVE_NAME \in DOMAIN cert_extensions) =>
            LET old == cert_extensions[SUBJECT_ALTERNATIVE_NAME]
                new == cert_extensions'[SUBJECT_ALTERNATIVE_NAME]
            IN  IF CommonNameAsGeneralName \in Range(old.value)
                THEN new = old
                ELSE new = [old EXCEPT !.value = Append(old.value, CommonNameAsGeneralName)]
       /\ (pc \in {"check", "pre_sign_cert", "sign"}
                /\ SUBJECT_ALTERNATIVE_NAME \in DOMAIN cert_extensions) =>
            /\ cert_extensions'[SUBJECT_ALTERNATIVE_NAME]
                    = cert_extensions[SUBJECT_ALTERNATIVE_NAME]
            /\ result'.kind = "returned" =>
                    result'.certificate.extensions[SUBJECT_ALTERNATIVE_NAME]
                        = cert_extensions[SUBJECT_ALTERNATIVE_NAME]]_vars

C7_Witness ==
    /\ pc = "done"
    /\ result.kind = "returned"
    /\ cn_in_san
    /\ HasCommonName
    /\ \E ext \in Passed :
        /\ ext.oid = SUBJECT_ALTERNATIVE_NAME
        /\ Len(ext.value) = 2
        /\ ext.value[2] = CommonNameAsGeneralName
        /\ result.certificate.extensions[SUBJECT_ALTERNATIVE_NAME] = ext

\* C8: when the merged subject has no CommonName and the working
\* SubjectAlternativeName has a DNSName or IPAddress entry, the subject gets
\* the first such entry as its only CommonName and keeps every attribute it
\* had; the subject is not changed afterwards and is the one of the
\* certificate.
C8_CnFromSan ==
    [][/\ (/\ pc = "update_cn_from_san"
           /\ get_attributes_for_oid(subject, COMMON_NAME) = <<>>
           /\ SUBJECT_ALTERNATIVE_NAME \in DOMAIN cert_extensions
           /\ \E gn \in Range(cert_extensions[SUBJECT_ALTERNATIVE_NAME].value) :
                    gn.t \in {"DNS", "IP"}) =>
            LET san == cert_extensions[SUBJECT_ALTERNATIVE_NAME].value
                first == CHOOSE i \in DOMAIN san :
                            /\ san[i].t \in {"DNS", "IP"}
                            /\ \A j \in DOMAIN san : san[j].t \in {"DNS", "IP"} => i <= j
            IN  /\ pc' = "update_san_from_cn"
                /\ get_attributes_for_oid(subject', COMMON_NAME)
                        = <<NameAttribute(COMMON_NAME, san[first].v)>>
                /\ \A type \in Range(NAME_ORDER) \ {COMMON_NAME} :
                        get_attributes_for_oid(subject', type)
                            = get_attributes_for_oid(subject, type)
                /\ Len(subject'.attrs) = Len(subject.attrs) + 1
       /\ pc \in {"update_san_from_cn", "check", "pre_sign_cert", "sign"} =>
            /\ subject' = subject
            /\ result'.kind = "returned" => result'.certificate.subject = subject]_vars

C8_Witness ==
    /\ pc = "done"
    /\ result.kind = "returned"
    /\ args.subject = NoneName
    /\ self.subject.kind = "Name"
    /\ \E ext \in Passed :
        /\ ext.oid = SUBJECT_ALTERNATIVE_NAME
        /\ Len(ext.value) = 2
        /\ ext.value[1].t = "email"
        /\ result.certificate.subject
                = Name(Append(self.subject.attrs,
                              NameAttribute(COMMON_NAME, ext.value[2].v)))

\* the attribute types of names
AttributeTypes == Range(NAME_ORDER)

\* C9: where the profile has a subject and the caller passes one, the merged
\* subject holds, for every attribute type the caller's subject has, exactly
\* the caller's entries of that type, and for every other type exactly the
\* profile's; /C=AT/CN=old.example.com merged with /CN=new.example.com is
\* /C=AT/CN=new.example.com.
C9_SubjectMerge ==
    [][(pc = "merge_subject" /\ self.subject.kind = "Name" /\ subject # NoneName) =>
        /\ \A type \in AttributeTypes :
            get_attributes_for_oid(subject', type) =
                IF get_attributes_for_oid(subject, type) # <<>>
                THEN get_attributes_for_oid(subject, type)
                ELSE get_attributes_for_oid(self.subject, type)
        /\ Len(subject'.attrs) =
                Len(subject.attrs)
                + Cardinality({i \in DOMAIN self.subject.attrs :
                                get_attributes_for_oid(subject, self.subject.attrs[i].oid) = <<>>})
        /\ (/\ self.subject = Name(<<AT, NameAttribute("CN", "old.example.com")>>)
            /\ subject = Name(<<NameAttribute("CN", "new.example.com")>>))
                => subject' = Name(<<AT, NameAttribute("CN", "new.example.com")>>)]_vars

C9_Witness ==
    /\ pc = "update_cn_from_san"
    /\ self.subject = Name(<<AT, NameAttribute("CN", "old.example.com")>>)
    /\ args.subject = Name(<<NameAttribute("CN", "new.example.com")>>)
    /\ subject = Name(<<AT, NameAttribute("CN", "new.example.com")>>)

\* C10: a call that returns a certificate has sent pre_sign_cert exactly
\* once, and a call that raises on the CN-or-SAN check or on a CommonName that
\* is no general name has not sent it.
C10_SignalOnce ==
    pc = "done" =>
        /\ result.kind = "returned" => pre_sign_cert = 1
        /\ (/\ result.kind = "raised"
            /\ result.message \in
                    {"Must name at least a CN or a subjectAlternativeName.",
                     "Could not parse CommonName as subjectAlternativeName."})
                => pre_sign_cert = 0

C10_Witness ==
    /\ pc = "done"
    /\ result.kind = "returned"
    /\ pre_sign_cert = 1

----------------------------------------------------------------------------
----------------------------------------------------------------------------
(* Profile.__init__ on its own: profiles are constructed from arguments a   *)
(* configuration or a caller may give                                      *)

\* values given for BasicConstraints: an extension of the caller's, or None
ProfileBasicConstraints ==
    {Extension(BASIC_CONSTRAINTS, TRUE, <<[t |-> "ca", v |-> "True"]>>),
     Extension(BASIC_CONSTRAINTS, FALSE, <<[t |-> "ca", v |-> "False"]>>),
     NoneExt}

\* the extensions argument of Profile.__init__.  An x509.Extension is stored
\* under its own OID whatever the key it is given under (lines 120-121)
ProfileExtensionArguments ==
    {EmptyDict}
    \cup {"basic_constraints" :> b : b \in ProfileBasicConstraints}
    \cup {"ocsp_no_check" :> o : o \in ProfileBasicConstraints \cup {ProfileOcspNoCheck}}
    \cup {("basic_constraints" :> b) @@ ("subject_alternative_name" :> o) :
            b \in ProfileBasicConstraints, o \in {ProfileSan, NoneExt}}

\* the arguments of Profile.__init__
ProfileArguments ==
    [subject : {NoneName, FalseName, Name(<<AT>>)},
     algorithm : {None, "SHA256", "MD4"},
     extensions : ProfileExtensionArguments,
     cn_in_san : BOOLEAN, add_crl_url : BOOLEAN, add_ocsp_url : {TRUE},
     add_issuer_url : {TRUE}, add_issuer_alternative_name : {TRUE}]

\* Profile(name, **arguments), lines 67-137
Profile_init(name, arguments) ==
    /\ UNCHANGED other_components
    /\ pc = "idle"
    /\ IF Profile_raises(arguments)
       THEN /\ init_error' = "ValueError"
            /\ UNCHANGED <<self, init_kwargs>>
       ELSE /\ init_error' = None
            /\ self' = Profile(name, arguments)
            /\ init_kwargs' = arguments
    /\ UNCHANGED <<pc, frame>>

ProfileNext == \E arguments \in ProfileArguments : Profile_init("example", arguments)

ProfileSpec == Init /\ [][ProfileNext]_vars

\* the arguments name a value for the BasicConstraints OID
ExplicitBasicConstraints(arguments) ==
    \E key \in DOMAIN arguments.extensions :
        CastOid(arguments.extensions, key) = BASIC_CONSTRAINTS

\* C12: the extension mapping of every Profile has an entry for
\* BasicConstraints, and unless the Profile was constructed with a value of
\* its own for that OID (an extension, or None), the entry is
\* BasicConstraints(ca=False) with the default criticality.
C12_BasicConstraintsDefault ==
    /\ BASIC_CONSTRAINTS \in DOMAIN self.extensions
    /\ ~ExplicitBasicConstraints(init_kwargs) =>
            self.extensions[BASIC_CONSTRAINTS] =
                Extension(BASIC_CONSTRAINTS, BASIC_CONSTRAINTS_DEFAULT_CRITICAL,
                          <<[t |-> "ca", v |-> "False"]>>)

\* a Profile constructed with other extensions only, which has the default
C12_Witness ==
    /\ self.name = "example"
    /\ DOMAIN init_kwargs.extensions = {"ocsp_no_check"}
    /\ init_kwargs.extensions["ocsp_no_check"] = ProfileOcspNoCheck
    /\ ~ExplicitBasicConstraints(init_kwargs)
    /\ self.extensions[BASIC_CONSTRAINTS].value = <<[t |-> "ca", v |-> "False"]>>
    /\ OCSP_NO_CHECK \in DOMAIN self.extensions

----------------------------------------------------------------------------
(* test_create_cert_minimal: Profile('example', subject=Subject()), the      *)
(* profile with an empty subject and no extensions of its own               *)

ExampleProfileArguments ==
    [subject |-> Name(<<>>), algorithm |-> None, extensions |-> EmptyDict,
     cn_in_san |-> TRUE, add_crl_url |-> TRUE, add_ocsp_url |-> TRUE,
     add_issuer_url |-> TRUE, add_issuer_alternative_name |-> TRUE]

\* subject = Subject({'CN': 'example.com'}), or no subject
ExampleSubjects == {NoneName, Name(<<NameAttribute("CN", "example.com")>>)}

ExampleInit ==
    /\ self = Profile("example", ExampleProfileArguments)
    /\ init_error = None
    /\ init_kwargs = ExampleProfileArguments
    /\ NoFrame
    /\ RegistryInit
    /\ AcmeInit
    /\ MoreInit

\* create_cert on the example profile, with any choice of the toggles
ExampleNext ==
    \/ /\ pc = "idle"
       /\ \E authority \in CertificateAuthorities, request \in CertificateSigningRequests,
             given_subject \in ExampleSubjects,
             in_san, crl_url, ocsp_url, issuer_url, issuer_alternative_name \in OptionalBool :
                create_cert(authority, request, given_subject, None, <<>>, in_san,
                            crl_url, ocsp_url, issuer_url, issuer_alternative_name)
    \/ GetExtensions
    \/ UpdateFromCa
    \/ MergeSubject
    \/ UpdateCnFromSan
    \/ UpdateSanFromCn
    \/ CheckAndFormat
    \/ PreSignCert
    \/ Sign
    \/ Return

ExampleSpec == ExampleInit /\ [][ExampleNext]_vars

\* the call of the test: subject CN=example.com, the four add_* toggles
\* false, cn_in_san left to the profile, against the root CA
MinimalCall ==
    /\ self = Profile("example", ExampleProfileArguments)
    /\ ca.name = "root"
    /\ args.subject = Name(<<NameAttribute("CN", "example.com")>>)
    /\ args.extensions = <<>>
    /\ cn_in_san = TRUE
    /\ add_crl_url = FALSE
    /\ add_ocsp_url = FALSE
    /\ add_issuer_url = FALSE
    /\ add_issuer_alternative_name = FALSE

\* C13: the certificate of the minimal call has exactly the extensions
\* AuthorityKeyIdentifier (the CA's), BasicConstraints(ca=False),
\* SubjectAlternativeName([DNS:example.com]) and SubjectKeyIdentifier (of the
\* CSR's public key), and its subject is exactly CN=example.com.
C13_MinimalCertificate ==
    (pc = "done" /\ result.kind = "returned" /\ MinimalCall) =>
        /\ result.certificate.subject = Name(<<NameAttribute("CN", "example.com")>>)
        /\ DOMAIN result.certificate.extensions =
                {AUTHORITY_KEY_IDENTIFIER, BASIC_CONSTRAINTS, SUBJECT_ALTERNATIVE_NAME,
                 SUBJECT_KEY_IDENTIFIER}
        /\ result.certificate.extensions[AUTHORITY_KEY_IDENTIFIER] =
                CaAuthorityKeyIdentifier(ca.name)
        /\ result.certificate.extensions[BASIC_CONSTRAINTS].value =
                <<[t |-> "ca", v |-> "False"]>>
        /\ result.certificate.extensions[SUBJECT_ALTERNATIVE_NAME].value =
                <<[t |-> "DNS", v |-> "example.com"]>>
        /\ result.certificate.extensions[SUBJECT_KEY_IDENTIFIER].value =
                <<[t |-> "digest", v |-> csr.public_key]>>

C13_Witness ==
    /\ pc = "done"
    /\ result.kind = "returned"
    /\ MinimalCall
    /\ pre_sign_cert = 1

----------------------------------------------------------------------------
(* The profile registry: Profiles (lines 573-598), the module-level         *)
(* profiles object, and DefaultProfileProxy (lines 604-622).  Threads call  *)
(* into it concurrently; a Profile instance is an index into heap.          *)

\* most Profile instances constructed in one run
MaxInstances == 2

\* the names threads ask the registry for; "legacy" cannot be constructed
RegistryNames == {"webserver", "client", "legacy"}

\* the names the configuration is changed to, or changed for, in a run
OverriddenNames == {"client"}

\* Variant of LocalOf: self._profiles is a plain object shared by all threads
LocalOfShared(t) == "t1"

\* threading.local(): the attributes a thread sees are its own
LocalOf(t) == t

\* Variant of ProxyTarget: the default name as it was when the module was loaded
ProxyTargetAtImport(settings) == CA_DEFAULT_PROFILE

\* lines 611 and 616: the name the proxy looks up
ProxyTarget(settings) == settings.CA_DEFAULT_PROFILE

\* Profile.__eq__ (lines 139-156), for two Profile instances
Profile_eq(a, b) ==
    /\ a.name = b.name
    /\ a.subject = b.subject
    /\ a.algorithm = b.algorithm
    /\ a.extensions = b.extensions
    /\ a.cn_in_san = b.cn_in_san
    /\ a.add_crl_url = b.add_crl_url
    /\ a.add_issuer_url = b.add_issuer_url
    /\ a.add_ocsp_url = b.add_ocsp_url
    /\ a.add_issuer_alternative_name = b.add_issuer_alternative_name

\* the threads that are inside __getitem__
InFlight == {t \in Threads : thread[t].pc # "idle"}

\* a thread enters __getitem__ (lines 579-581)
Enter(t, op, name, other) ==
    /\ thread[t].pc = "idle"
    /\ Len(heap) + Cardinality(InFlight) < MaxInstances
    /\ thread' = [thread EXCEPT ![t] =
            [pc |-> "try", op |-> op, name |-> name, other |-> other,
             default_at_call |-> ca_settings.CA_DEFAULT_PROFILE,
             config_at_call |-> ca_settings.CA_PROFILES[name],
             returned |-> 0, from_cache |-> FALSE, changed |-> FALSE, exception |-> None,
             observed |-> FALSE]]
    /\ UNCHANGED <<ca_settings, heap, _profiles, seen>>
    /\ UNCHANGED <<engine_vars, acme_vars, more_vars>>

\* profiles[name]
Profiles_getitem(t, name) ==
    Enter(t, "getitem", IF name = None THEN ca_settings.CA_DEFAULT_PROFILE ELSE name, 0)

\* profile.cn_in_san: DefaultProfileProxy.__getattr__ (lines 610-611)
DefaultProfileProxy_getattr(t) ==
    Enter(t, "getattr", ProxyTarget(ca_settings), 0)

\* profile == other, other a Profile: DefaultProfileProxy.__eq__ (lines 613-616)
DefaultProfileProxy_eq(t, other) ==
    Enter(t, "eq", ProxyTarget(ca_settings), other)

\* the access of thread t returns instance id; what the caller sees of it
\* is the result of the comparison (==) or the attribute cn_in_san
Complete(t, id, hit) ==
    /\ thread' = [thread EXCEPT ![t] =
            [@ EXCEPT !.pc = "idle", !.returned = id, !.from_cache = hit,
                      !.other = 0, !.default_at_call = None, !.config_at_call = None,
                      !.changed = /\ thread[t].name \in DOMAIN seen[t]
                                  /\ seen[t][thread[t].name].config # thread[t].config_at_call,
                      !.observed = CASE thread[t].op = "eq" ->
                                            Profile_eq(heap[id], heap[thread[t].other])
                                     [] OTHER -> heap[id].cn_in_san]]
    /\ seen' = [seen EXCEPT ![t] =
            IF thread[t].name \in DOMAIN @ THEN @
            ELSE @ @@ (thread[t].name :> [id |-> id, config |-> thread[t].config_at_call])]

\* the access of thread t raises
Fail(t, exception) ==
    /\ thread' = [thread EXCEPT ![t] =
            [@ EXCEPT !.pc = "idle", !.exception = exception, !.other = 0,
                      !.default_at_call = None, !.config_at_call = None]]
    /\ UNCHANGED seen

\* Variant of Try: the mapping is not consulted, every access constructs
Try_uncached(t) ==
    /\ thread[t].pc = "try"
    /\ LET mine == _profiles[LocalOf(t)]
       IN  IF ~mine.has_profiles
           THEN /\ _profiles' = [_profiles EXCEPT ![LocalOf(t)] =
                                    [has_profiles |-> TRUE, profiles |-> EmptyDict]]
                /\ thread' = [thread EXCEPT ![t].pc = "store"]
                /\ UNCHANGED seen
           ELSE /\ thread' = [thread EXCEPT ![t].pc = "store"]
                /\ UNCHANGED <<_profiles, seen>>
    /\ UNCHANGED <<ca_settings, heap>>
    /\ UNCHANGED <<engine_vars, acme_vars, more_vars>>

\* lines 583-588: the cached instance is returned, or the miss is handled
Try(t) ==
    /\ thread[t].pc = "try"
    /\ LET mine == _profiles[LocalOf(t)]
       IN  IF ~mine.has_profiles
           THEN /\ _profiles' = [_profiles EXCEPT ![LocalOf(t)] =
                                    [has_profiles |-> TRUE, profiles |-> EmptyDict]]
                /\ thread' = [thread EXCEPT ![t].pc = "store"]
                /\ UNCHANGED seen
           ELSE IF thread[t].name \notin DOMAIN mine.profiles
           THEN /\ thread' = [thread EXCEPT ![t].pc = "store"]
                /\ UNCHANGED <<_profiles, seen>>
           ELSE /\ Complete(t, mine.profiles[thread[t].name], TRUE)
                /\ UNCHANGED _profiles
    /\ UNCHANGED <<ca_settings, heap>>
    /\ UNCHANGED <<engine_vars, acme_vars, more_vars>>

\* line 590: get_profile(name) constructs an instance, which is stored in the
\* thread's mapping
Store(t) ==
    /\ thread[t].pc = "store"
    /\ LET arguments == ca_settings.CA_PROFILES[thread[t].name]
       IN  IF Profile_raises(arguments)
           THEN /\ Fail(t, "ValueError")
                /\ UNCHANGED <<heap, _profiles>>
           ELSE IF ~_profiles[LocalOf(t)].has_profiles
           THEN /\ Fail(t, "AttributeError")
                /\ UNCHANGED <<heap, _profiles>>
           ELSE /\ heap' = Append(heap, Profile(thread[t].name, arguments))
                /\ _profiles' = [_profiles EXCEPT ![LocalOf(t)].profiles =
                                    setitem(@, thread[t].name, Len(heap) + 1)]
                /\ thread' = [thread EXCEPT ![t].pc = "return"]
                /\ UNCHANGED seen
    /\ UNCHANGED ca_settings
    /\ UNCHANGED <<engine_vars, acme_vars, more_vars>>

\* line 591
ReturnStored(t) ==
    /\ thread[t].pc = "return"
    /\ LET mine == _profiles[LocalOf(t)]
       IN  IF ~mine.has_profiles
           THEN Fail(t, "AttributeError")
           ELSE Complete(t, mine.profiles[thread[t].name], FALSE)
    /\ UNCHANGED <<ca_settings, heap, _profiles>>
    /\ UNCHANGED <<engine_vars, acme_vars, more_vars>>

\* profiles._reset() (lines 597-598): a new local() for every thread
_reset ==
    /\ _profiles' = [t \in Threads |-> NoLocal]
    /\ seen' = [t \in Threads |-> EmptyDict]
    /\ UNCHANGED <<ca_settings, heap, thread>>
    /\ UNCHANGED <<engine_vars, acme_vars, more_vars>>

\* a thread changes the instance it obtained: p.cn_in_san = not p.cn_in_san
SetAttribute(t) ==
    /\ thread[t].pc = "idle"
    /\ thread[t].returned # 0
    /\ heap' = [heap EXCEPT ![thread[t].returned].cn_in_san = ~@]
    /\ UNCHANGED <<ca_settings, _profiles, thread, seen>>
    /\ UNCHANGED <<engine_vars, acme_vars, more_vars>>

\* the configuration changes: another default profile
OverrideDefault(name) ==
    /\ ca_settings.CA_DEFAULT_PROFILE = CA_DEFAULT_PROFILE
    /\ name # ca_settings.CA_DEFAULT_PROFILE
    /\ ca_settings' = [ca_settings EXCEPT !.CA_DEFAULT_PROFILE = name]
    /\ UNCHANGED <<heap, _profiles, thread, seen>>
    /\ UNCHANGED <<engine_vars, acme_vars, more_vars>>

\* the configuration changes: CA_PROFILES[name] gets another add_crl_url
OverrideProfile(name) ==
    /\ ca_settings.CA_PROFILES = CA_PROFILES
    /\ ca_settings' = [ca_settings EXCEPT !.CA_PROFILES[name].add_crl_url = ~@]
    /\ UNCHANGED <<heap, _profiles, thread, seen>>
    /\ UNCHANGED <<engine_vars, acme_vars, more_vars>>

RegistryNext ==
    \/ \E t \in Threads, name \in RegistryNames \cup {None} : Profiles_getitem(t, name)
    \/ \E t \in Threads : DefaultProfileProxy_getattr(t)
    \/ \E t \in Threads, other \in 1..Len(heap) : DefaultProfileProxy_eq(t, other)
    \/ \E t \in Threads : Try(t)
    \/ \E t \in Threads : Store(t)
    \/ \E t \in Threads : ReturnStored(t)
    \/ _reset
    \/ \E t \in Threads : SetAttribute(t)
    \/ \E name \in OverriddenNames : OverrideDefault(name)
    \/ \E name \in OverriddenNames : OverrideProfile(name)

RegistrySpec == Init /\ [][RegistryNext]_vars

\* thread t leaves __getitem__ with an instance in this step
Returns(t) ==
    /\ thread[t].pc # "idle"
    /\ thread'[t].pc = "idle"
    /\ thread'[t].exception = None

\* C14: in one thread, once profiles[name] has given an instance, every later
\* profiles[name] of that thread gives the same instance, whatever happened
\* to the configuration in between, as long as no _reset() came in between.
C14_SameInstanceUntilReset ==
    [][\A t \in Threads :
        (Returns(t) /\ thread[t].name \in DOMAIN seen[t])
            => thread'[t].returned = seen[t][thread[t].name].id]_vars

\* a second profiles[name] that began after CA_PROFILES[name] had changed
\* and still gave the first instance, built from the old configuration
C14_Witness ==
    \E t \in Threads :
        /\ thread[t].pc = "idle"
        /\ thread[t].op = "getitem"
        /\ thread[t].exception = None
        /\ thread[t].from_cache
        /\ thread[t].changed
        /\ thread[t].returned = seen[t][thread[t].name].id
        /\ ca_settings.CA_PROFILES # CA_PROFILES

\* the instances thread t has obtained from the registry since the last reset
Obtained(t) == {seen[t][name].id : name \in DOMAIN seen[t]}

\* C15: no instance is given to two threads, under any interleaving of their
\* accesses, and an instance that is changed is not one that a thread other
\* than its holder gets from profiles[name].
C15_ThreadsDoNotShare ==
    [][/\ \A t, u \in Threads : t # u => Obtained(t)' \cap Obtained(u)' = {}
       /\ \A t, u \in Threads :
            t # u /\ thread'[t].returned # 0 => thread'[t].returned # thread'[u].returned
       /\ \A id \in 1..Len(heap) :
            heap'[id] # heap[id] =>
                \A u \in Threads : thread[u].returned # id => id \notin Obtained(u)]_vars

\* both threads have asked for the same name, the instance of the first has
\* been changed, and the second sees its own, unchanged instance
C15_Witness ==
    /\ "webserver" \in DOMAIN seen["t1"]
    /\ "webserver" \in DOMAIN seen["t2"]
    /\ seen["t1"]["webserver"].id # seen["t2"]["webserver"].id
    /\ heap[seen["t1"]["webserver"].id].cn_in_san = FALSE
    /\ heap[seen["t2"]["webserver"].id].cn_in_san = TRUE
    /\ thread["t2"].pc = "idle"
    /\ thread["t2"].returned = seen["t2"]["webserver"].id
    /\ thread["t2"].from_cache
    /\ thread["t2"].observed = TRUE

\* C16: an attribute access or an equality test on the proxy uses the profile
\* of the default name configured when the access is made: the instance is
\* the one profiles[that name] gives in this thread, and what the caller gets
\* is that instance's attribute, or its comparison with the other profile.
C16_ProxyFollowsDefault ==
    [][\A t \in Threads :
        (Returns(t) /\ thread[t].op \in {"getattr", "eq"}) =>
            LET id == thread'[t].returned
            IN  /\ heap'[id].name = thread[t].default_at_call
                /\ seen'[t][thread[t].default_at_call].id = id
                /\ thread'[t].observed =
                        IF thread[t].op = "eq"
                        THEN Profile_eq(heap'[id], heap'[thread[t].other])
                        ELSE heap'[id].cn_in_san]_vars

\* the default name was changed, and the proxy then gave the profile of the
\* new name, in a thread whose registry still holds the profile of the old
C16_Witness ==
    \E t \in Threads :
        /\ thread[t].pc = "idle"
        /\ thread[t].op \in {"getattr", "eq"}
        /\ thread[t].exception = None
        /\ ca_settings.CA_DEFAULT_PROFILE = "client"
        /\ heap[thread[t].returned].name = "client"
        /\ CA_DEFAULT_PROFILE \in DOMAIN seen[t]
        /\ "client" \in DOMAIN seen[t]

----------------------------------------------------------------------------
(* The ACME views: nonces, the checks of post, the finalize handler *)

\* nonces issued in one behaviour
MaxNonces == 3

\* serials of the certificate authorities that requests name in their URL
Serials == {"s1", "s2"}

\* slugs that requests name in their URL; only "order" is an AcmeOrder
Slugs == {"order", "missing"}

STATUS_READY == "ready"
STATUS_PROCESSING == "processing"

\* the states of an order
OrderStatuses == {"invalid", "pending", "processing", "ready", "valid"}

\* an HTTP response with a problem document, or a resource
AcmeResponse(cls, status, typ, detail) == [cls |-> cls, status |-> status, typ |-> typ, detail |-> detail]

AcmeResponseUnsupportedMediaType == AcmeResponse("AcmeResponseUnsupportedMediaType", 415, "malformed", "Requests must use the application/jose+json content type.")

AcmeResponseMalformed(message) == AcmeResponse("AcmeResponseMalformed", 400, "malformed", message)

AcmeResponseMalformedPayload == AcmeResponse("AcmeResponseMalformedPayload", 400, "malformed", "Malformed payload.")

AcmeResponseUnauthorized(message) == AcmeResponse("AcmeResponseUnauthorized", 401, "unauthorized", message)

AcmeResponseNotFound(message) == AcmeResponse("AcmeResponseNotFound", 404, "not-found", message)

AcmeResponseBadNonce == AcmeResponse("AcmeResponseBadNonce", 400, "badNonce", "Bad or invalid nonce.")

AcmeResponseForbidden(typ, message) == AcmeResponse("AcmeResponseForbidden", 403, typ, message)

AcmeResponseError(message) == AcmeResponse("AcmeResponseError", 500, "serverInternal", message)

AcmeResponseOrder(status) == AcmeResponse("AcmeResponseOrder", 200, None, status)

\* the checks of post that come before the nonce check, and the response of
\* the first one that fails
EarlyChecks == {"content_type", "jws", "account", "ca", "ok"}

EarlyResponse(check) ==
    CASE check = "content_type" -> AcmeResponseUnsupportedMediaType
      [] check = "jws" -> AcmeResponseMalformed("Could not parse JWS token.")
      [] check = "account" -> AcmeResponseUnauthorized("Account not found.")
      [] check = "ca" -> AcmeResponseNotFound("The requested CA cannot be found.")

\* the key without the serial
cache_key_nonce_only(serial, nonce) == <<"", nonce>>

\* 'acme-nonce-%s-%s' % (self.kwargs['serial'], nonce)
cache_key(serial, nonce) == <<serial, nonce>>

\* Variant of cache.set: the cache is emptied before the key is set
cache_set_flush(c, key, value) == (key :> value)

\* cache.set(key, value)
cache_set(c, key, value) == [k \in DOMAIN c \cup {key} |-> IF k = key THEN value ELSE c[k]]

\* an increment that starts from the value the key was set to
cache_incr_lost_update(c, key) == [c EXCEPT ![key] = 1]

\* cache.incr(key) on a key the cache holds: one atomic step of the backend
cache_incr(c, key) == [c EXCEPT ![key] = @ + 1]

\* the handler goes on whatever the status of the order
order_ready_unchecked(status) == TRUE

\* not (order.status != AcmeOrder.STATUS_READY)
order_ready(status) == status = STATUS_READY

\* the workers that handle a request and will answer it with a nonce
Busy == {w \in Workers : worker[w].pc \notin {"idle", "except"}}

\* the nonces issued so far, each with the serial it was issued for
Issued == DOMAIN accepted

\* secrets.token_bytes(32): a value no earlier nonce has
FreshNonce == Cardinality(Issued) + 1

\* an exception is raised inside the try block of dispatch
Raise(wk, ex) == [wk EXCEPT !.pc = "except", !.exception = ex]

\* AcmeBaseView.dispatch up to the nonce check of post; Http404 is raised
\* before the try block and ends the request
dispatch(w, serial, enabled, raises, check) ==
    /\ UNCHANGED <<engine_vars, registry_vars, more_vars>>
    /\ worker[w].pc = "idle"
    /\ Cardinality(Issued) + Cardinality(Busy) < MaxNonces
    /\ LET request == [IdleWorker EXCEPT !.serial = serial]
       IN  worker' = [worker EXCEPT ![w] =
                IF ~enabled
                THEN IdleWorker
                ELSE IF raises
                THEN Raise(request, "Exception")
                ELSE IF check # "ok"
                THEN [request EXCEPT !.pc = "respond", !.response = EarlyResponse(check)]
                ELSE [request EXCEPT !.pc = "validate_nonce"]]
    /\ UNCHANGED <<cache, accepted, orders, acme_certificates, tasks>>

\* validate_nonce on the nonce of the protected header, and what post does
\* with its result
validate_nonce(w, nonce) ==
    /\ UNCHANGED <<engine_vars, registry_vars, more_vars>>
    /\ worker[w].pc = "validate_nonce"
    /\ LET pair == <<worker[w].serial, nonce>>
           key == cache_key(worker[w].serial, nonce)
           wk == [worker[w] EXCEPT !.nonce = nonce, !.checked = TRUE, !.known = pair \in Issued]
       IN  IF key \notin DOMAIN cache
           THEN /\ worker' = [worker EXCEPT ![w] = [wk EXCEPT !.pc = "respond", !.response = AcmeResponseBadNonce]]
                /\ UNCHANGED <<cache, accepted>>
           ELSE /\ cache' = cache_incr(cache, key)
                /\ IF cache'[key] > 1
                   THEN /\ worker' = [worker EXCEPT ![w] = [wk EXCEPT !.pc = "respond", !.count = cache'[key], !.response = AcmeResponseBadNonce]]
                        /\ UNCHANGED accepted
                   ELSE /\ worker' = [worker EXCEPT ![w] = [wk EXCEPT !.pc = "acme_request", !.count = cache'[key]]]
                        /\ accepted' = IF pair \in Issued THEN [accepted EXCEPT ![pair] = @ + 1] ELSE accepted
    /\ UNCHANGED <<orders, acme_certificates, tasks>>

\* post after the nonce check, and AcmeOrderFinalizeView.acme_request up to
\* the check of the order's status
acme_request(w, slug, url_ok, payload_ok, raises) ==
    /\ UNCHANGED <<engine_vars, registry_vars, more_vars>>
    /\ worker[w].pc = "acme_request"
    /\ LET wk == [worker[w] EXCEPT !.slug = slug]
           handler == [wk EXCEPT !.ran = TRUE]
       IN  worker' = [worker EXCEPT ![w] =
                IF ~url_ok
                THEN [wk EXCEPT !.pc = "respond", !.response = AcmeResponseUnauthorized("URL does not match.")]
                ELSE IF ~payload_ok
                THEN [wk EXCEPT !.pc = "respond", !.response = AcmeResponseMalformedPayload]
                ELSE IF raises
                THEN Raise(handler, "Exception")
                ELSE IF slug \notin DOMAIN orders
                THEN [handler EXCEPT !.pc = "respond", !.response = AcmeResponseUnauthorized("You are not authorized to perform this request.")]
                ELSE IF ~order_ready(orders[slug])
                THEN [handler EXCEPT !.pc = "respond", !.order_status = orders[slug], !.response = AcmeResponseForbidden("orderNotReady", "This order is not yet ready.")]
                ELSE [handler EXCEPT !.pc = "finalize", !.order_status = orders[slug]]]
    /\ UNCHANGED <<cache, accepted, orders, acme_certificates, tasks>>

\* the rest of AcmeOrderFinalizeView.acme_request
finalize(w) ==
    /\ UNCHANGED <<engine_vars, registry_vars, more_vars>>
    /\ worker[w].pc = "finalize"
    /\ acme_certificates' = acme_certificates \cup {worker[w].slug}
    /\ orders' = [orders EXCEPT ![worker[w].slug] = STATUS_PROCESSING]
    /\ tasks' = tasks + 1
    /\ worker' = [worker EXCEPT ![w] = [@ EXCEPT !.pc = "respond", !.response = AcmeResponseOrder(STATUS_PROCESSING)]]
    /\ UNCHANGED <<cache, accepted>>

\* get_nonce: a fresh nonce, put in the cache under the serial of the URL
get_nonce(serial) ==
    /\ cache' = cache_set(cache, cache_key(serial, FreshNonce), 0)
    /\ accepted' = accepted @@ (<<serial, FreshNonce>> :> 0)

\* the end of AcmeBaseView.dispatch: the response gets a nonce and is returned
respond(w) ==
    /\ UNCHANGED <<engine_vars, registry_vars, more_vars>>
    /\ worker[w].pc = "respond"
    /\ get_nonce(worker[w].serial)
    /\ worker' = [worker EXCEPT ![w] = IdleWorker]
    /\ UNCHANGED <<orders, acme_certificates, tasks>>

\* the except clause of AcmeBaseView.dispatch: its first statement is a bare
\* raise, so the exception leaves the view; the statements that log it and
\* build the response are not reached, and no nonce is issued
dispatch_except(w) ==
    /\ UNCHANGED <<engine_vars, registry_vars, more_vars>>
    /\ worker[w].pc = "except"
    /\ worker' = [worker EXCEPT ![w] = IdleWorker]
    /\ UNCHANGED <<cache, accepted, orders, acme_certificates, tasks>>

\* AcmeNewNonceView.dispatch with ACME enabled
AcmeNewNonceView_dispatch(serial) ==
    /\ UNCHANGED <<engine_vars, registry_vars, more_vars>>
    /\ Cardinality(Issued) + Cardinality(Busy) < MaxNonces
    /\ get_nonce(serial)
    /\ UNCHANGED <<orders, acme_certificates, tasks, worker>>

\* the cache drops an entry: cache.set gives it the default timeout
Expire(key) ==
    /\ UNCHANGED <<engine_vars, registry_vars, more_vars>>
    /\ key \in DOMAIN cache
    /\ cache' = [k \in (DOMAIN cache) \ {key} |-> cache[k]]
    /\ UNCHANGED <<accepted, orders, acme_certificates, tasks, worker>>

\* no request yet, and an order in any state
AcmeSpecInit ==
    /\ self = Profile(CA_DEFAULT_PROFILE, CA_PROFILES[CA_DEFAULT_PROFILE])
    /\ init_error = None
    /\ init_kwargs = CA_PROFILES[CA_DEFAULT_PROFILE]
    /\ NoFrame
    /\ RegistryInit
    /\ AcmeEmpty
    /\ MoreInit
    /\ orders \in [{"order"} -> OrderStatuses]

AcmeNext ==
    \/ \E w \in Workers, serial \in Serials, enabled \in BOOLEAN, raises \in BOOLEAN, check \in EarlyChecks : dispatch(w, serial, enabled, raises, check)
    \/ \E w \in Workers, nonce \in 0..Cardinality(Issued) : validate_nonce(w, nonce)
    \/ \E w \in Workers, slug \in Slugs, url_ok \in BOOLEAN, payload_ok \in BOOLEAN, raises \in BOOLEAN : acme_request(w, slug, url_ok, payload_ok, raises)
    \/ \E w \in Workers : finalize(w)
    \/ \E w \in Workers : respond(w)
    \/ \E w \in Workers : dispatch_except(w)
    \/ \E serial \in Serials : AcmeNewNonceView_dispatch(serial)
    \/ \E key \in DOMAIN cache : Expire(key)

AcmeSpec == AcmeSpecInit /\ [][AcmeNext]_vars

----------------------------------------------------------------------------
(* Claims about the ACME views *)

\* worker w makes the nonce check in this step
ChecksNonce(w) == worker[w].pc = "validate_nonce" /\ worker'[w].pc # "validate_nonce"

\* the response is the problem document badNonce with status 400
IsBadNonce(response) == response.status = 400 /\ response.typ = "badNonce"

C18_UnknownNonceRefused ==
    \A w \in Workers :
        (worker[w].checked /\ ~worker[w].known) =>
            /\ worker[w].pc = "respond"
            /\ worker[w].response = AcmeResponseBadNonce
            /\ worker[w].response.status = 400
            /\ worker[w].response.typ = "badNonce"
            /\ ~worker[w].ran

\* one request carried a nonce that was never issued, another one a nonce
\* that was issued for the other serial and is still in the cache; both have
\* their badNonce response
C18_Witness ==
    /\ worker["w1"].pc = "respond"
    /\ worker["w1"].checked
    /\ worker["w1"].nonce = 0
    /\ worker["w1"].response = AcmeResponseBadNonce
    /\ worker["w2"].pc = "respond"
    /\ worker["w2"].checked
    /\ ~worker["w2"].known
    /\ \E serial \in Serials \ {worker["w2"].serial} :
            /\ <<serial, worker["w2"].nonce>> \in Issued
            /\ cache_key(serial, worker["w2"].nonce) \in DOMAIN cache
    /\ worker["w2"].response = AcmeResponseBadNonce
    /\ ~worker["w2"].ran

\* the database: orders, certificate records, scheduled issuance tasks
database == <<orders, acme_certificates, tasks>>

\* the handler of worker w runs in this step and returns or goes on
RunsHandler(w) == worker[w].pc = "acme_request" /\ worker'[w].ran /\ worker'[w].pc # "except"

\* C19: when the finalize handler runs for an order whose status is not
\* ready, the response is 403 orderNotReady, and neither that step nor the
\* rest of the request changes the database: the order keeps its status, no
\* certificate record is created and no issuance task is scheduled.
C19_NotReadyChangesNothing ==
    [][\A w \in Workers :
        /\ (RunsHandler(w) /\ worker'[w].slug \in DOMAIN orders /\ orders[worker'[w].slug] # STATUS_READY) =>
                /\ worker'[w].pc = "respond"
                /\ worker'[w].response.status = 403
                /\ worker'[w].response.typ = "orderNotReady"
                /\ worker'[w].order_status = orders[worker'[w].slug]
                /\ UNCHANGED database
        /\ (worker[w].pc = "respond" /\ worker[w].response.typ = "orderNotReady" /\ worker'[w] # worker[w]) =>
                UNCHANGED database]_vars

\* a finalize request for a pending order has its orderNotReady response; the
\* order is still pending, there is no certificate record and no task
C19_Witness ==
    \E w \in Workers :
        /\ worker[w].pc = "respond"
        /\ worker[w].ran
        /\ worker[w].slug = "order"
        /\ worker[w].order_status = "pending"
        /\ worker[w].response = AcmeResponseForbidden("orderNotReady", "This order is not yet ready.")
        /\ orders["order"] = "pending"
        /\ acme_certificates = {}
        /\ tasks = 0

\* C20: when the handling of a request inside dispatch's try block raises an
\* unexpected exception, the view goes on to return a response with status
\* 500 whose problem document has type serverInternal and detail 'Internal
\* server error'; the exception does not leave the view.
C20_UnexpectedExceptionAnswered ==
    [][\A w \in Workers :
        (worker[w].pc = "except" /\ worker[w].exception = "Exception" /\ worker'[w] # worker[w]) =>
            /\ worker'[w].pc = "respond"
            /\ worker'[w].response = AcmeResponseError("Internal server error")
            /\ worker'[w].response.status = 500
            /\ worker'[w].response.typ = "serverInternal"
            /\ worker'[w].response.detail = "Internal server error"]_vars

----------------------------------------------------------------------------
(* List-valued and set-valued extensions, next to native containers *)

\* longest list
MaxListLen == 2

\* the result of a container operation: the new contents, the error class
\* raised (or None) and the value returned
Outcome(value, raised, returned) == [value |-> value, raised |-> raised, returned |-> returned]

\* no value is returned
NoValue == [t |-> "None", v |-> ""]

\* a string, as a caller passes it
Text(string) == [t |-> "text", v |-> string]

\* the items of the lists: general names
ListItems == {[t |-> "DNS", v |-> "example.com"], [t |-> "IP", v |-> "1.2.3.4"]}

\* the serialized form of an item
serialize_value(item) == Text(IF item.t = "DNS" THEN "DNS:example.com" ELSE "IP:1.2.3.4")

\* the forms in which a caller may pass an item: the item itself, its
\* serialized form, or the string without the prefix
Representations(item) == {item, serialize_value(item), Text(item.v)}

ListArguments == UNION {Representations(item) : item \in ListItems}

\* the argument is stored as it was passed
parse_value_as_passed(x) == x

\* the item an argument stands for
parse_value(x) == IF x.t = "text" THEN CHOOSE item \in ListItems : x \in Representations(item) ELSE x

\* Python: the position an index names in a list of length n, from 0
Position(i, n) == IF i < 0 THEN i + n ELSE i

InRange(i, n) == Position(i, n) >= 0 /\ Position(i, n) < n

\* the list without the element at position k, with x at position k, and
\* with x inserted before position k (positions from 0)
RemoveAt(l, k) == SubSeq(l, 1, k) \o SubSeq(l, k + 2, Len(l))

ReplaceAt(l, k, x) == [l EXCEPT ![k + 1] = x]

InsertAt(l, k, x) == SubSeq(l, 1, k) \o <<x>> \o SubSeq(l, k + 1, Len(l))

\* the first position that holds x, from 0
IndexOf(l, x) == (CHOOSE k \in 1..Len(l) : l[k] = x /\ \A j \in 1..(k - 1) : l[j] # x) - 1

\* list.__getitem__, __setitem__, __delitem__ with an integer index
list_getitem(l, i) == IF InRange(i, Len(l)) THEN Outcome(l, None, l[Position(i, Len(l)) + 1]) ELSE Outcome(l, "IndexError", NoValue)

list_setitem(l, i, x) == IF InRange(i, Len(l)) THEN Outcome(ReplaceAt(l, Position(i, Len(l)), x), None, NoValue) ELSE Outcome(l, "IndexError", NoValue)

list_delitem(l, i) == IF InRange(i, Len(l)) THEN Outcome(RemoveAt(l, Position(i, Len(l))), None, NoValue) ELSE Outcome(l, "IndexError", NoValue)

list_append(l, x) == Outcome(Append(l, x), None, NoValue)

list_extend(l, xs) == Outcome(l \o xs, None, NoValue)

\* list.insert: an index beyond either end means that end
list_insert(l, i, x) ==
    LET k == IF i < 0 THEN (IF i + Len(l) < 0 THEN 0 ELSE i + Len(l)) ELSE (IF i > Len(l) THEN Len(l) ELSE i)
    IN  Outcome(InsertAt(l, k, x), None, NoValue)

list_remove(l, x) == IF x \in Range(l) THEN Outcome(RemoveAt(l, IndexOf(l, x)), None, NoValue) ELSE Outcome(l, "ValueError", NoValue)

list_pop(l, i) == IF InRange(i, Len(l)) THEN Outcome(RemoveAt(l, Position(i, Len(l))), None, l[Position(i, Len(l)) + 1]) ELSE Outcome(l, "IndexError", NoValue)

\* the sequence of the items the arguments stand for
ParseAll(xs) == [k \in DOMAIN xs |-> parse_value(xs[k])]

\* the list family of the extensions: arguments are normalized, returned
\* values are serialized, errors are those of the list
ListExtension_getitem(value, i) == LET r == list_getitem(value, i) IN IF r.raised = None THEN [r EXCEPT !.returned = serialize_value(@)] ELSE r

ListExtension_setitem(value, i, x) == list_setitem(value, i, parse_value(x))

ListExtension_delitem(value, i) == list_delitem(value, i)

ListExtension_append(value, x) == list_append(value, parse_value(x))

ListExtension_extend(value, xs) == list_extend(value, ParseAll(xs))

ListExtension_insert(value, i, x) == list_insert(value, i, parse_value(x))

ListExtension_remove(value, x) == list_remove(value, parse_value(x))

ListExtension_pop(value, i) == LET r == list_pop(value, i) IN IF r.raised = None THEN [r EXCEPT !.returned = serialize_value(@)] ELSE r

\* the members of a KeyUsage, and the names a caller may give them
KeyUsageFlags == {"key_agreement", "decipher_only", "encipher_only"}

SerializedFlag(flag) ==
    CASE flag = "key_agreement" -> "keyAgreement"
      [] flag = "decipher_only" -> "decipherOnly"
      [] flag = "encipher_only" -> "encipherOnly"

SetArguments == KeyUsageFlags \cup {SerializedFlag(flag) : flag \in KeyUsageFlags}

\* the member a name stands for
parse_flag(x) == IF x \in KeyUsageFlags THEN x ELSE CHOOSE flag \in KeyUsageFlags : SerializedFlag(flag) = x

\* the members a member implies
Implied(flag) == IF flag \in {"decipher_only", "encipher_only"} THEN {"key_agreement"} ELSE {}

\* a set with the members its members imply
Expand(s) == s \cup UNION {Implied(flag) : flag \in s}

\* a member, as a returned value
Flag(flag) == [t |-> "flag", v |-> flag]

\* set.add, discard, remove, and pop when it takes member x
set_add(s, x) == Outcome(s \cup {x}, None, NoValue)

set_discard(s, x) == Outcome(s \ {x}, None, NoValue)

set_remove(s, x) == IF x \in s THEN Outcome(s \ {x}, None, NoValue) ELSE Outcome(s, "KeyError", NoValue)

set_pop(s, x) == IF s = {} THEN Outcome(s, "KeyError", NoValue) ELSE Outcome(s \ {x}, None, Flag(x))

\* the members named and no others
KeyUsage_as_given(values) == {parse_flag(x) : x \in values}

\* KeyUsage({'value': values}): the members named, with those they imply
KeyUsage(values) == Expand({parse_flag(x) : x \in values})

\* the set family of the extensions: arguments are normalized, adding a
\* member also adds the members it implies, errors are those of the set
SetExtension_add(value, x) == Outcome(value \cup {parse_flag(x)} \cup Implied(parse_flag(x)), None, NoValue)

SetExtension_discard(value, x) == set_discard(value, parse_flag(x))

\* the removal of a member the set does not hold raises nothing
SetExtension_remove_quiet(value, x) == set_discard(value, parse_flag(x))

SetExtension_remove(value, x) == set_remove(value, parse_flag(x))

SetExtension_pop(value, x) == IF value = {} THEN Outcome(value, "KeyError", NoValue) ELSE Outcome(value \ {x}, None, Flag(SerializedFlag(x)))

\* KeyUsage.__eq__: equal members, a member counting for those it implies
KeyUsage_eq(a, b) == Expand(a) = Expand(b)

\* what is kept of an operation: its name and, for both containers, the
\* error class raised
Kept(op, native, ext) == [op |-> op, native |-> native.raised, ext |-> ext.raised]

\* the state of the other components
ContainerFrame == UNCHANGED <<engine_vars, registry_vars, acme_vars, initca_vars, crl_vars, challenge_vars>>

\* an operation on the list and the same operation on the list extension
ListStep(op, native, ext) ==
    /\ ContainerFrame
    /\ native_list' = native.value
    /\ list_ext' = ext.value
    /\ last_op' = Kept(op, native, ext)
    /\ UNCHANGED <<native_set, set_ext>>

\* an operation on the set and the same operation on the KeyUsage
SetStep(op, native, ext) ==
    /\ ContainerFrame
    /\ native_set' = native.value
    /\ set_ext' = ext.value
    /\ last_op' = Kept(op, native, ext)
    /\ UNCHANGED <<native_list, list_ext>>

\* the indexes tried: every position of the longest list, from either end,
\* and one beyond
Indexes == (0 - MaxListLen - 1)..(MaxListLen + 1)

\* the lists of arguments, up to the longest list
ArgumentLists == UNION {[1..n -> ListArguments] : n \in 1..MaxListLen}

\* list(init) and the list extension made of init
List_init(init) == ListStep("list.init", Outcome(ParseAll(init), None, NoValue), Outcome(ParseAll(init), None, NoValue))

List_getitem(i) == ListStep("list.getitem", list_getitem(native_list, i), ListExtension_getitem(list_ext, i))

List_setitem(i, x) == ListStep("list.setitem", list_setitem(native_list, i, parse_value(x)), ListExtension_setitem(list_ext, i, x))

List_delitem(i) == ListStep("list.delitem", list_delitem(native_list, i), ListExtension_delitem(list_ext, i))

List_append(x) ==
    /\ Len(native_list) < MaxListLen /\ Len(list_ext) < MaxListLen
    /\ ListStep("list.append", list_append(native_list, parse_value(x)), ListExtension_append(list_ext, x))

List_extend(xs) ==
    /\ Len(native_list) + Len(xs) <= MaxListLen /\ Len(list_ext) + Len(xs) <= MaxListLen
    /\ ListStep("list.extend", list_extend(native_list, ParseAll(xs)), ListExtension_extend(list_ext, xs))

List_insert(i, x) ==
    /\ Len(native_list) < MaxListLen /\ Len(list_ext) < MaxListLen
    /\ ListStep("list.insert", list_insert(native_list, i, parse_value(x)), ListExtension_insert(list_ext, i, x))

List_remove(x) == ListStep("list.remove", list_remove(native_list, parse_value(x)), ListExtension_remove(list_ext, x))

List_pop(i) == ListStep("list.pop", list_pop(native_list, i), ListExtension_pop(list_ext, i))

\* set(init) and KeyUsage({'value': init})
Set_init(init) == SetStep("set.init", Outcome({parse_flag(x) : x \in init}, None, NoValue), Outcome(KeyUsage(init), None, NoValue))

Set_add(x) == SetStep("set.add", set_add(native_set, parse_flag(x)), SetExtension_add(set_ext, x))

Set_discard(x) == SetStep("set.discard", set_discard(native_set, parse_flag(x)), SetExtension_discard(set_ext, x))

Set_remove(x) == SetStep("set.remove", set_remove(native_set, parse_flag(x)), SetExtension_remove(set_ext, x))

\* each of the two sets gives up a member of its own choice
Set_pop(x, y) ==
    /\ x \in native_set \/ native_set = {}
    /\ y \in set_ext \/ set_ext = {}
    /\ SetStep("set.pop", set_pop(native_set, x), SetExtension_pop(set_ext, y))

ContainerNext ==
    \/ \E init \in {<<>>} \cup ArgumentLists : List_init(init)
    \/ \E i \in Indexes : List_getitem(i)
    \/ \E i \in Indexes, x \in ListArguments : List_setitem(i, x)
    \/ \E i \in Indexes : List_delitem(i)
    \/ \E x \in ListArguments : List_append(x)
    \/ \E xs \in ArgumentLists : List_extend(xs)
    \/ \E i \in Indexes, x \in ListArguments : List_insert(i, x)
    \/ \E x \in ListArguments : List_remove(x)
    \/ \E i \in Indexes : List_pop(i)
    \/ \E init \in SUBSET KeyUsageFlags : Set_init(init)
    \/ \E x \in SetArguments : Set_add(x)
    \/ \E x \in SetArguments : Set_discard(x)
    \/ \E x \in SetArguments : Set_remove(x)
    \/ \E x \in KeyUsageFlags, y \in KeyUsageFlags : Set_pop(x, y)

ContainerSpec == Init /\ [][ContainerNext]_vars

----------------------------------------------------------------------------
(* Claims about the container families *)

\* an operation other than a construction is applied to containers that
\* hold the same
StepFromEqual == native_list = list_ext /\ native_set = set_ext /\ last_op'.op \notin {"list.init", "set.init"} /\ container_vars' # container_vars

ListOperations == {"list.getitem", "list.setitem", "list.delitem", "list.append", "list.extend", "list.insert", "list.remove", "list.pop"}

----------------------------------------------------------------------------
(* Extensions a profile maps to None, and what the CA adds afterwards *)

\* the extensions _update_from_ca takes from the CA
FromCa == {CRL_DISTRIBUTION_POINTS, AUTHORITY_INFORMATION_ACCESS, ISSUER_ALTERNATIVE_NAME}

\* the extension of this OID is added from the CA when it is not in the mapping
AddedFromCa(oid) ==
    /\ oid \in DOMAIN ca.extensions_for_certificate
    /\ CASE oid = CRL_DISTRIBUTION_POINTS -> add_crl_url
         [] oid = AUTHORITY_INFORMATION_ACCESS -> add_ocsp_url \/ add_issuer_url
         [] OTHER -> add_issuer_alternative_name

\* C26: a certificate issued by a profile that maps CRLDistributionPoints,
\* AuthorityInformationAccess or IssuerAlternativeName to None has no
\* extension of that OID, also when the toggle for it is true and the CA
\* carries the extension.
C26_SuppressedNotAddedFromCa ==
    (pc = "done" /\ result.kind = "returned") =>
        \A oid \in FromCa :
            Suppresses(oid) => oid \notin DOMAIN result.certificate.extensions

\* a profile that maps one of the three to None issued a certificate with a
\* CA that carries the extension, the toggle being true
C26_Case ==
    /\ pc = "done"
    /\ result.kind = "returned"
    /\ \E oid \in FromCa : Suppresses(oid) /\ AddedFromCa(oid)

----------------------------------------------------------------------------
(* Requests that are rejected before the nonce check *)

\* worker w takes a step of a request that post rejects before validate_nonce
\* (content type, JWS, account, CA): the rejection itself, or the return of
\* its response
RejectedEarly(w) ==
    \/ worker[w].pc = "idle" /\ worker'[w].pc = "respond"
    \/ worker[w].pc = "respond" /\ ~worker[w].checked /\ worker'[w].pc = "idle"

\* the nonce under this key was issued and not used
Unused(c, key) == key \in DOMAIN c /\ c[key] = 0

\* C27: a POST that is rejected before the nonce check uses up no nonce:
\* every nonce the cache holds is held with the same count after the request
\* was rejected and answered, whatever nonce the request carried; and a
\* request that then comes to the nonce check with an unused nonce passes it,
\* after which the nonce is used.
C27_EarlyRejectionKeepsNonce ==
    [][/\ \A w \in Workers :
            RejectedEarly(w) =>
                /\ \A key \in DOMAIN cache : key \in DOMAIN cache' /\ cache'[key] = cache[key]
                /\ \A pair \in DOMAIN accepted : accepted'[pair] = accepted[pair]
       /\ \A w \in Workers :
            LET key == cache_key(worker[w].serial, worker'[w].nonce)
            IN  (ChecksNonce(w) /\ Unused(cache, key)) =>
                    worker'[w].pc = "acme_request" /\ cache'[key] = 1]_vars

\* a request was rejected for its content type while the cache holds a nonce
\* for its serial, issued and not used
C27_Witness ==
    \E w \in Workers :
        /\ worker[w].pc = "respond"
        /\ ~worker[w].checked
        /\ worker[w].response = AcmeResponseUnsupportedMediaType
        /\ \E key \in DOMAIN cache :
                key[1] = worker[w].serial /\ Unused(cache, key) /\ key \in Issued

----------------------------------------------------------------------------
(* Concurrent requests to finalize one order *)

\* two POSTs to the finalize URL of serial s1 are being handled, each with a
\* nonce of its own that was issued and not used; both passed the checks
\* before the nonce check
TwoRequests ==
    /\ cache = (cache_key("s1", 1) :> 0) @@ (cache_key("s1", 2) :> 0)
    /\ accepted = (<<"s1", 1>> :> 0) @@ (<<"s1", 2>> :> 0)
    /\ acme_certificates = {}
    /\ tasks = 0
    /\ worker = [w \in Workers |-> [IdleWorker EXCEPT !.pc = "validate_nonce", !.serial = "s1"]]

\* an order that is ready; either nothing has happened yet, or two requests
\* have arrived
FinalizeInit ==
    /\ self = Profile(CA_DEFAULT_PROFILE, CA_PROFILES[CA_DEFAULT_PROFILE])
    /\ init_error = None
    /\ init_kwargs = CA_PROFILES[CA_DEFAULT_PROFILE]
    /\ NoFrame
    /\ RegistryInit
    /\ MoreInit
    /\ orders = [slug \in {"order"} |-> STATUS_READY]
    /\ AcmeEmpty \/ TwoRequests

FinalizeSpec == FinalizeInit /\ [][AcmeNext]_vars

\* C29: for one order the task that issues the certificate is scheduled at
\* most once and there is at most one certificate record, however the
\* requests to finalize the order interleave.
C29_FinalizedOnce ==
    /\ tasks <= 1
    /\ Cardinality(acme_certificates) <= 1

----------------------------------------------------------------------------
(* The command init_ca: when the new certificate authority expires *)

\* the clock stops here
MaxClock == 4

\* --expires: the validity asked for
Validities == 1..2

\* the names a certificate authority can get
CaNames == {"root", "child", "grandchild"}

InitCaFrame == UNCHANGED <<engine_vars, registry_vars, acme_vars, container_vars, crl_vars, challenge_vars>>

\* time passes; it can pass between any two statements
Tick ==
    /\ InitCaFrame
    /\ clock < MaxClock
    /\ clock' = clock + 1
    /\ UNCHANGED <<authorities, command>>

\* the condition of line 349, with the time timezone.now() returns
ExceedsParent(parent, now, expires) ==
    parent # None /\ now + expires > authorities[parent].expires

\* Command.handle, lines 349-354: the clock is read, and if the validity
\* ends after the parent expires, the parent's expiry is taken
handle(name, parent, expires) ==
    /\ InitCaFrame
    /\ command.pc = "idle"
    /\ name \notin DOMAIN authorities
    /\ parent \in DOMAIN authorities \cup {None}
    /\ command' =
        IF ExceedsParent(parent, clock, expires)
        THEN [pc |-> "create", name |-> name, parent |-> parent, expires |-> expires,
              expires_datetime |-> authorities[parent].expires]
        ELSE [pc |-> "else", name |-> name, parent |-> parent, expires |-> expires,
              expires_datetime |-> 0]
    /\ UNCHANGED <<clock, authorities>>

\* line 356: the clock is read a second time
handle_else ==
    /\ InitCaFrame
    /\ command.pc = "else"
    /\ command' = [command EXCEPT !.pc = "create", !.expires_datetime = clock + command.expires]
    /\ UNCHANGED <<clock, authorities>>

\* lines 358-359 and 466-468: a parent that allows no intermediate CA ends the
\* command with CommandError; otherwise CertificateAuthority.objects.init
\* creates the certificate authority with expires=expires_datetime
handle_init(allows_intermediate_ca) ==
    /\ InitCaFrame
    /\ command.pc = "create"
    /\ IF command.parent # None /\ ~allows_intermediate_ca
       THEN UNCHANGED authorities
       ELSE authorities' = authorities @@
                (command.name :> [parent |-> command.parent, expires |-> command.expires_datetime])
    /\ command' = IdleCommand
    /\ UNCHANGED clock

InitCaNext ==
    \/ Tick
    \/ \E name \in CaNames, parent \in CaNames \cup {None}, expires \in Validities : handle(name, parent, expires)
    \/ handle_else
    \/ \E allows_intermediate_ca \in BOOLEAN : handle_init(allows_intermediate_ca)

InitCaSpec == Init /\ [][InitCaNext]_vars

\* C25: a certificate authority that init_ca creates with a parent never
\* expires later than the parent: when the current time plus the validity asked
\* for is after the parent's expiry, the parent's expiry is the new expiry.
C25_NotLaterThanParent ==
    \A name \in DOMAIN authorities :
        authorities[name].parent # None =>
            authorities[name].expires <= authorities[authorities[name].parent].expires

\* the part of C25 that is about the comparison of line 349: in the step that
\* makes it, a validity that ends after the parent expires is replaced by the
\* parent's expiry
C25_ParentExpiryTaken ==
    [][(command.pc = "idle" /\ command'.pc # "idle" /\ command'.parent # None
            /\ clock + command'.expires > authorities[command'.parent].expires) =>
        command'.expires_datetime = authorities[command'.parent].expires]_vars

\* an intermediate CA was created with its parent's expiry
C25_Case ==
    \E name \in DOMAIN authorities :
        /\ authorities[name].parent # None
        /\ authorities[name].expires = authorities[authorities[name].parent].expires

----------------------------------------------------------------------------
(* CertificateRevocationListView and its cache *)

\* revocations after which a CRL differs
MaxCrlNumber == 2

DER == "Encoding.DER"
PEM == "Encoding.PEM"

\* the instances of the view the URL configuration holds: type and scope
CrlViews == {[type |-> DER, scope |-> "user"], [type |-> PEM, scope |-> "user"]}

\* what a request has for ?encoding=; None when the parameter is absent
EncodingParameters == {None, "DER", "PEM", "ASN1", "foo"}

\* utils.parse_encoding raises ValueError
parse_encoding_raises(value) == value \notin {None, "DER", "ASN1", "PEM", DER, PEM}

\* utils.parse_encoding: the Encoding a string names; an Encoding is returned as it is
parse_encoding(value) ==
    IF value \in {None, "DER", "ASN1", DER} THEN DER ELSE PEM

\* utils.get_crl_cache_key(serial, algorithm, encoding, scope): the digest is
\* the same in every view
get_crl_cache_key(serial, encoding, scope) == <<serial, encoding, scope>>

\* ca.get_crl(...).public_bytes(encoding): the CRL as it is now, serialized
public_bytes(number, encoding) == [encoding |-> encoding, number |-> number]

CrlFrame == UNCHANGED <<engine_vars, registry_vars, acme_vars, container_vars, initca_vars, challenge_vars>>

\* line 137: encoding = parse_encoding(self.type), in the branch of a cache miss
GetEncoding(view, requested) == parse_encoding(view.type)

\* CertificateRevocationListView.get; a ValueError of parse_encoding leaves
\* the view before the cache is touched
CertificateRevocationListView_get(view, serial, parameter) ==
    /\ CrlFrame
    /\ LET value == IF parameter = None THEN view.type ELSE parameter
       IN  IF parse_encoding_raises(value)
           THEN UNCHANGED crl_cache
           ELSE LET encoding == parse_encoding(value)
                    key == get_crl_cache_key(serial, encoding, view.scope)
                IN  IF key \in DOMAIN crl_cache
                    THEN UNCHANGED crl_cache
                    ELSE crl_cache' = cache_set(crl_cache, key,
                            public_bytes(crl_number, GetEncoding(view, encoding)))
    /\ UNCHANGED crl_number

\* a certificate is revoked: a CRL generated from now on differs
Revoke ==
    /\ CrlFrame
    /\ crl_number < MaxCrlNumber
    /\ crl_number' = crl_number + 1
    /\ UNCHANGED crl_cache

\* cache.set(cache_key, crl, self.expires): the entry times out
CrlExpire(key) ==
    /\ CrlFrame
    /\ key \in DOMAIN crl_cache
    /\ crl_cache' = [k \in (DOMAIN crl_cache) \ {key} |-> crl_cache[k]]
    /\ UNCHANGED crl_number

CrlNext ==
    \/ \E view \in CrlViews, serial \in Serials, parameter \in EncodingParameters : CertificateRevocationListView_get(view, serial, parameter)
    \/ Revoke
    \/ \E key \in DOMAIN crl_cache : CrlExpire(key)

CrlSpec == Init /\ [][CrlNext]_vars

\* C30: whatever CRL requests were made, what the cache holds under the key
\* computed for an encoding is a CRL serialized in that encoding.
C30_CachedInEncodingOfKey ==
    \A key \in DOMAIN crl_cache : crl_cache[key].encoding = key[2]

----------------------------------------------------------------------------
(* ACME challenges: the challenge view and the validation task *)

\* task runs that can be scheduled and not yet run
MaxValidations == 2

\* what requests.get meets at the URL of the challenge: an exception, a status
\* other than 200, a body that is not the key authorization, or the key
\* authorization with status 200
Responses == {"exception", "not_found", "wrong_content", "expected"}

ChallengeFrame == UNCHANGED <<engine_vars, registry_vars, acme_vars, container_vars, initca_vars, crl_vars>>

\* the task runs scheduled and not yet run
Scheduled == validations["c1"] + validations["c2"]

\* AcmeChallengeView.acme_request: the challenge is set to processing whatever
\* its status, and the validation task is scheduled; a slug that names no
\* challenge ends the request with an exception
AcmeChallengeView_acme_request(slug) ==
    /\ ChallengeFrame
    /\ IF slug \notin Challenges
       THEN UNCHANGED <<challenges, validations>>
       ELSE /\ Scheduled < MaxValidations
            /\ challenges' = [challenges EXCEPT ![slug].status = STATUS_PROCESSING]
            /\ validations' = [validations EXCEPT ![slug] = @ + 1]
    /\ UNCHANGED <<acme_order, authorizations, task_run>>

\* AcmeAuthorization.usable: the authorization is pending and so is its order
usable(auth) == authorizations[auth] = STATUS_PENDING /\ acme_order = STATUS_PENDING

\* what the task takes as received: the body of a response with status 200;
\* no request is made for a challenge type other than http-01
received(type, response) ==
    IF type = TYPE_HTTP_01 /\ response = "expected" THEN "expected" ELSE "False"

\* Variant of OthersValid: the other authorizations are not looked at
OthersValid_unchecked(auth) == TRUE

\* every other authorization of the order is valid
OthersValid(auth) == \A a \in Auths \ {auth} : authorizations[a] = STATUS_VALID

\* Variant of Transition: a failed validation leaves the order as it is
Transition_order_kept(auth, ok) ==
    IF ok
    THEN [challenge |-> STATUS_VALID, auth |-> STATUS_VALID,
          order |-> IF OthersValid(auth) THEN STATUS_READY ELSE acme_order]
    ELSE [challenge |-> STATUS_INVALID, auth |-> STATUS_INVALID, order |-> acme_order]

\* the statuses after the validation: valid, and the order ready when no other
\* authorization is left; or all invalid
Transition(auth, ok) ==
    IF ok
    THEN [challenge |-> STATUS_VALID, auth |-> STATUS_VALID,
          order |-> IF OthersValid(auth) THEN STATUS_READY ELSE acme_order]
    ELSE [challenge |-> STATUS_INVALID, auth |-> STATUS_INVALID, order |-> STATUS_INVALID]

\* tasks.acme_validate_challenge(challenge_pk): it returns early when ACME is
\* not enabled, when the challenge is not processing and when the
\* authorization is not usable
acme_validate_challenge(challenge, enabled, response) ==
    /\ ChallengeFrame
    /\ validations[challenge] > 0
    /\ validations' = [validations EXCEPT ![challenge] = @ - 1]
    /\ task_run' = [challenge |-> challenge, enabled |-> enabled, response |-> response]
    /\ LET auth == AuthOf(challenge)
           after == Transition(auth, received(challenges[challenge].type, response) = "expected")
       IN  IF ~enabled \/ challenges[challenge].status # STATUS_PROCESSING \/ ~usable(auth)
           THEN UNCHANGED <<acme_order, authorizations, challenges>>
           ELSE /\ challenges' = [challenges EXCEPT ![challenge].status = after.challenge]
                /\ authorizations' = [authorizations EXCEPT ![auth] = after.auth]
                /\ acme_order' = after.order

\* an order with two authorizations; the type of each challenge is one of the two
ChallengeSpecInit ==
    /\ self = Profile(CA_DEFAULT_PROFILE, CA_PROFILES[CA_DEFAULT_PROFILE])
    /\ init_error = None
    /\ init_kwargs = CA_PROFILES[CA_DEFAULT_PROFILE]
    /\ NoFrame
    /\ RegistryInit
    /\ AcmeInit
    /\ ContainerInit
    /\ InitCaInit
    /\ CrlInit
    /\ ChallengeEmpty
    /\ challenges \in [Challenges -> [type : {TYPE_HTTP_01, TYPE_TLS_ALPN_01}, status : {STATUS_PENDING}]]

ChallengeNext ==
    \/ \E slug \in Challenges \cup {"missing"} : AcmeChallengeView_acme_request(slug)
    \/ \E challenge \in Challenges, enabled \in BOOLEAN, response \in Responses : acme_validate_challenge(challenge, enabled, response)

ChallengeSpec == ChallengeSpecInit /\ [][ChallengeNext]_vars

\* the task runs on this challenge in this step
Runs(challenge) == validations'[challenge] < validations[challenge]

\* the run validates: ACME is enabled, the challenge is processing and its
\* authorization is usable
Validates(challenge) ==
    /\ Runs(challenge)
    /\ task_run'.enabled
    /\ challenges[challenge].status = STATUS_PROCESSING
    /\ usable(AuthOf(challenge))

\* the validation of this run fails: the request raises, the status is not
\* 200, the body is not the key authorization, or the type is not supported
Fails(challenge) ==
    \/ task_run'.response \in {"exception", "not_found", "wrong_content"}
    \/ challenges[challenge].type # TYPE_HTTP_01

C28_FinalStatusKept ==
    [][\A challenge \in Challenges :
        challenges[challenge].status \in {STATUS_VALID, STATUS_INVALID} =>
            challenges'[challenge].status = challenges[challenge].status]_vars

\* the part of C28 that is about the task: a run of the task leaves a
\* challenge that is valid or invalid as it is
C28_TaskKeepsFinalStatus ==
    [][\A challenge \in Challenges :
        (Runs(challenge) /\ challenges[challenge].status \in {STATUS_VALID, STATUS_INVALID}) =>
            challenges'[challenge].status = challenges[challenge].status]_vars

====
